---------------------------- MODULE Spec2Model ----------------------------
(* Model of the asynchronous backtest job runner of the Rizzk Terminal:    *)
(*   src/rizzk/web/pages/backtest.py  (_start_job, _run_job, _poll_status) *)
(*   src/rizzk/web/pages/prices.py    (load_prices)                        *)
(*   src/rizzk/core/backtest.py       (vwap_cross)                         *)
(* task_cache is the diskcache store shared by the request handlers and    *)
(* the worker threads; one worker thread is spawned per accepted submit.   *)
(* task_cache.set and task_cache.get are single atomic steps (diskcache    *)
(* runs each in one SQLite transaction) and set is taken to succeed; no    *)
(* expire argument is passed, so entries are not evicted by time.          *)
(* Further components, each under a specification of its own:             *)
(*   src/app.py, src/rizzk/core/security.py   (/health, RateLimiter)       *)
(*   src/apps/rizzk_pro/risk.py, journal.py, src/scripts/trade_add.py      *)
(*                                            (trade entry and journal)    *)
(*   src/apps/rizzk_pro/rizzk_pro.py          (sma, rsi, backtest engine)  *)
EXTENDS Integers, Sequences, FiniteSets, Bags, TLC

VARIABLES
    task_cache,   \* task_cache: job id -> stored dict (domain = keys present)
    threads,      \* bag of worker threads started by _start_job
    returned,     \* history: how many times _start_job returned each job id
    writes,       \* history: per key, the task_cache.set calls made on it
    callback,     \* the latest Dash callback invocation: handler, job id,
                  \* the info it read from task_cache, the tuple it returned
    last,         \* name of the function that took the latest step
    clock,        \* time.monotonic(), in whole seconds
    _hits,        \* RateLimiter._hits: key -> deque of admission times
    responses,    \* history: the responses /health has sent, oldest first
    trades,       \* the trades table: id -> row (id is the PRIMARY KEY)
    exports,      \* the export notes present under EXPORTS_DIR
    attempt,      \* the latest trade entry attempt and its outcome
    call,         \* the latest evaluation of an indicator or of the engine
    heap,         \* the DataFrame objects in memory, by reference
    memo,         \* the memoized price cache: symbol -> pickled frame
    verdicts,     \* history: the calls made on the RateLimiter, oldest first
    pending,      \* bag of allow calls that have read the clock and wait
                  \* for the lock
    store,        \* dcc.Store "backtest-job": the job id the page holds
    disabled,     \* dcc.Interval "backtest-poll": its disabled property
    polls,        \* bag of interval requests sent and not yet answered,
                  \* each with the State (job id) it was sent with
    pc,           \* sync daemon: the line main() is about to run
    kind,         \* sync daemon: which snapshot main() is making
    _dirty,       \* DebouncedEventHandler._dirty
    since_event,  \* time.time() - handler._last_event, capped
    since_snapshot, \* time.time() - last_snapshot, capped
    busy,         \* seconds since main() read `now`
    events,       \* history: the events the observer has delivered
    snapshots     \* history: change snapshots whose safe_commit has started

jobVars == <<task_cache, threads, returned, writes, callback, last>>
healthVars == <<clock, _hits, responses>>
journalVars == <<trades, exports, attempt>>
frameVars == <<heap, memo>>
limiterVars == <<verdicts, pending>>
pageVars == <<store, disabled, polls>>
daemonVars == <<pc, kind, _dirty, since_event, since_snapshot, busy, events, snapshots>>
restVars == <<frameVars, limiterVars, pageVars, daemonVars>>
otherVars == <<healthVars, journalVars, call, restVars>>
vars == <<jobVars, otherVars>>

---------------------------------------------------------------------------
(* Bounds and input sets                                                   *)

MaxJobs == 2

\* Universe of uuid4 values; an id not yet issued is an unknown id.
JobIds == 1..MaxJobs

\* Python None (for a job id: the empty dcc.Store; both are falsy).
NoJob == 0
None == [none |-> TRUE]
EmptyDict == [empty |-> TRUE]

\* Values of the "symbol" dropdown; "" is the falsy value.
Symbols == {"", "AAPL"}

\* Dash's no_update marker.
no_update == <<"no_update">>

---------------------------------------------------------------------------
(* Rational arithmetic standing for the float arithmetic of pandas         *)

Abs(n) == IF n < 0 THEN -n ELSE n

RECURSIVE GCD(_, _)
GCD(a, b) == IF b = 0 THEN a ELSE GCD(b, a % b)

\* n/d in lowest terms with a positive denominator
Rat(n, d) ==
    LET g == GCD(Abs(n), Abs(d))
        s == IF d < 0 THEN -1 ELSE 1
    IN  <<(s * n) \div g, (s * d) \div g>>

RAdd(p, q) == Rat(p[1] * q[2] + q[1] * p[2], p[2] * q[2])
RMul(p, q) == Rat(p[1] * q[1], p[2] * q[2])
RInt(n) == <<n, 1>>

---------------------------------------------------------------------------
(* The price collaborator: source.get_ohlc                                 *)
(* A frame is [cols, rows]; each row carries its index label, its date and *)
(* its close and volume (a column missing from cols is not readable).      *)

Row(l, d, c, v) == [label |-> l, date |-> d, close |-> c, volume |-> v]

AllCols == {"date", "close", "volume"}

Frame(cols, rows) == [cols |-> cols, rows |-> rows]

\* Frames the collaborator returns: empty (pd.DataFrame()); rising; falling, delivered
\* newest-first and without a volume column; without a close column.
Frames ==
    { Frame({}, <<>>),
      Frame(AllCols, <<Row(0, 1, 1, 1), Row(1, 2, 2, 1)>>),
      Frame({"date", "close"}, <<Row(0, 2, 1, 1), Row(1, 1, 2, 1)>>),
      Frame({"date", "volume"}, <<Row(0, 1, 1, 1)>>) }

\* Messages of the exceptions the collaborator raises (network, parse).
FetchErrors == {"fetch failed"}

\* Outcome of one call: a returned frame or a raised exception.
Returns(v) == [raises |-> FALSE, value |-> v]
Raises(msg) == [raises |-> TRUE, error |-> msg]

get_ohlc == {Returns(f) : f \in Frames} \cup {Raises(m) : m \in FetchErrors}

---------------------------------------------------------------------------
(* load_prices (prices.py)                                                 *)

empty(df) == df.rows = <<>> \/ df.cols = {}

\* rows with the row at position i removed
RemoveAt(rows, i) == [k \in 1..(Len(rows) - 1) |-> IF k < i THEN rows[k] ELSE rows[k + 1]]

\* position of the first row with the smallest date
MinDatePos(rows) ==
    CHOOSE i \in 1..Len(rows) :
        /\ \A k \in 1..Len(rows) : rows[i].date <= rows[k].date
        /\ \A k \in 1..(i - 1) : rows[k].date > rows[i].date

RECURSIVE sort_values(_)
sort_values(rows) ==
    IF rows = <<>> THEN <<>>
    ELSE LET i == MinDatePos(rows)
         IN  <<rows[i]>> \o sort_values(RemoveAt(rows, i))

load_prices(fetched) ==
    IF fetched.raises THEN fetched
    ELSE LET frame == fetched.value
         IN  IF empty(frame) THEN Returns(frame)
             ELSE IF "date" \notin frame.cols THEN Raises("'date'")
             ELSE Returns(Frame(frame.cols, sort_values(frame.rows)))

---------------------------------------------------------------------------
(* vwap_cross (core/backtest.py)                                           *)

\* volume = prices.get("volume"); a series of 1.0 when the column is absent
Volume(prices) ==
    [i \in 1..Len(prices.rows) |->
        IF "volume" \in prices.cols THEN prices.rows[i].volume ELSE 1]

Close(prices) == [i \in 1..Len(prices.rows) |-> prices.rows[i].close]

RECURSIVE cumsum(_, _)
cumsum(s, t) == IF t = 0 THEN 0 ELSE cumsum(s, t - 1) + s[t]

\* close > (close*volume).cumsum() / (volume.cumsum() + 1e-9), for integer
\* close and volume: c*(V + eps) > S with 0 < c*eps < 1
AboveVwap(c, V, S) == IF c * V = S THEN c > 0 ELSE c * V > S

signal(prices) ==
    LET close == Close(prices)
        volume == Volume(prices)
        pv == [i \in 1..Len(prices.rows) |-> close[i] * volume[i]]
    IN  [t \in 1..Len(prices.rows) |->
            IF AboveVwap(close[t], cumsum(volume, t), cumsum(pv, t)) THEN 1 ELSE 0]

\* signal.shift().fillna(0)
shift(s) == [t \in 1..Len(s) |-> IF t = 1 THEN 0 ELSE s[t - 1]]

\* prices["close"].pct_change().fillna(0)
pct_change(close) ==
    [t \in 1..Len(close) |->
        IF t = 1 THEN RInt(0) ELSE Rat(close[t] - close[t - 1], close[t - 1])]

RECURSIVE cumprod(_, _)
cumprod(s, t) == IF t = 0 THEN RInt(1) ELSE RMul(cumprod(s, t - 1), s[t])

\* vwap_cross without the df.empty guard of line 10
vwap_cross_no_guard(df) ==
    IF "close" \notin df.cols THEN Raises("'close'")
    ELSE LET n == Len(df.rows)
             returns == pct_change(Close(df))
             position == shift(signal(df))
             strategy_returns == [t \in 1..n |-> RMul(returns[t], RInt(position[t]))]
             growth == [t \in 1..n |-> RAdd(RInt(1), strategy_returns[t])]
         IN  Returns([index |-> [t \in 1..n |-> df.rows[t].label],
                      equity |-> [t \in 1..n |-> cumprod(growth, t)]])

vwap_cross(df) ==
    IF empty(df) THEN Returns([index |-> <<>>, equity |-> <<>>])
    ELSE IF "close" \notin df.cols THEN Raises("'close'")
    ELSE LET n == Len(df.rows)
             returns == pct_change(Close(df))
             position == shift(signal(df))
             strategy_returns == [t \in 1..n |-> RMul(returns[t], RInt(position[t]))]
             growth == [t \in 1..n |-> RAdd(RInt(1), strategy_returns[t])]
         IN  Returns([index |-> [t \in 1..n |-> df.rows[t].label],
                      equity |-> [t \in 1..n |-> cumprod(growth, t)]])

---------------------------------------------------------------------------
(* Cache entries written by the job runner                                 *)

RunningEntry == [status |-> "running"]

\* payload built at backtest.py:27-31
Payload(result) ==
    [status |-> "done",
     equity |-> result.equity,
     index |-> [t \in 1..Len(result.index) |-> ToString(result.index[t])]]

ErrorEntry(msg) == [status |-> "error", error |-> msg]

\* task_cache.get(key): the stored value, None when the key is absent
Get(cache, key) == IF key \in DOMAIN cache THEN cache[key] ELSE None

\* task_cache.set(key, value)
Set(cache, key, value) ==
    [k \in DOMAIN cache \cup {key} |-> IF k = key THEN value ELSE cache[k]]

\* dict.get(key, default)
DictGet(d, key, default) == IF key \in DOMAIN d THEN d[key] ELSE default

\* history of the set calls on a key: the writing function, the job whose
\* request or worker made the call, and the status written
Logged(log, key, by, job, status) ==
    [log EXCEPT ![key] = Append(@, [by |-> by, job |-> job, status |-> status])]

---------------------------------------------------------------------------
(* State after register(): nothing cached, no worker, nothing returned;    *)
(* a fresh limiter, an empty journal, nothing evaluated yet, no frame in   *)
(* memory and nothing memoized                                             *)

Init ==
    /\ task_cache = <<>>
    /\ threads = EmptyBag
    /\ returned = [j \in JobIds |-> 0]
    /\ writes = [j \in JobIds |-> <<>>]
    /\ callback = [handler |-> "none", job_id |-> NoJob, info |-> None, out |-> <<>>]
    /\ last = "register"
    /\ clock = 0 /\ _hits = <<>> /\ responses = <<>>
    /\ trades = <<>> /\ exports = {} /\ attempt = None
    /\ call = None
    /\ heap = <<>> /\ memo = <<>>
    /\ verdicts = <<>> /\ pending = EmptyBag
    /\ store = NoJob /\ disabled = TRUE /\ polls = EmptyBag
    /\ pc = "sleep" /\ kind = "none" /\ _dirty = FALSE
    /\ since_event = -1 /\ since_snapshot = 900 /\ busy = 0
    /\ events = <<>> /\ snapshots = 0

Issued == {j \in JobIds : returned[j] > 0}

\* an identifier generated once, when register() runs, and used by every call
uuid4_once == {1}

\* str(uuid.uuid4()): an identifier that no earlier call has produced
uuid4 == JobIds \ Issued

Thread(job_id, symbol) ==
    [job_id |-> job_id, symbol |-> symbol, pc |-> "try",
     prices |-> None, exc |-> None, payload |-> None]

Replace(bag, old, new) == (bag (-) SetToBag({old})) (+) SetToBag({new})

---------------------------------------------------------------------------
(* _start_job: the "Run Backtest" callback                                 *)

\* _start_job without the line-62 write of the running marker
_start_job_no_marker(symbol) ==
    /\ last' = "_start_job"
    /\ symbol # ""
    /\ BagCardinality(threads) < MaxJobs
    /\ \E job_id \in uuid4 :
        /\ threads' = threads (+) SetToBag({Thread(job_id, symbol)})
        /\ returned' = [returned EXCEPT ![job_id] = @ + 1]
        /\ callback' = [handler |-> "_start_job", job_id |-> job_id, info |-> None,
                        out |-> <<<<job_id>>,
                                  <<"Running backtest for ", symbol, "...">>,
                                  FALSE>>]
    /\ UNCHANGED <<task_cache, writes>>

\* _start_job that builds the Thread of line 63 and never calls start()
_start_job_not_started(symbol) ==
    /\ last' = "_start_job"
    /\ symbol # ""
    /\ Cardinality(Issued) < MaxJobs
    /\ \E job_id \in uuid4 :
        /\ task_cache' = Set(task_cache, job_id, RunningEntry)
        /\ writes' = Logged(writes, job_id, "_start_job", job_id, "running")
        /\ returned' = [returned EXCEPT ![job_id] = @ + 1]
        /\ callback' = [handler |-> "_start_job", job_id |-> job_id, info |-> None,
                        out |-> <<<<job_id>>,
                                  <<"Running backtest for ", symbol, "...">>,
                                  FALSE>>]
    /\ UNCHANGED threads

_start_job(symbol) ==
    /\ last' = "_start_job"
    /\ IF symbol = ""
       THEN /\ callback' = [handler |-> "_start_job", job_id |-> NoJob, info |-> None,
                            out |-> <<no_update, <<"Select a symbol to backtest.">>, TRUE>>]
            /\ UNCHANGED <<task_cache, threads, returned, writes>>
       ELSE /\ BagCardinality(threads) < MaxJobs
            /\ \E job_id \in uuid4 :
                /\ task_cache' = Set(task_cache, job_id, RunningEntry)
                /\ writes' = Logged(writes, job_id, "_start_job", job_id, "running")
                /\ threads' = threads (+) SetToBag({Thread(job_id, symbol)})
                /\ returned' = [returned EXCEPT ![job_id] = @ + 1]
                /\ callback' = [handler |-> "_start_job", job_id |-> job_id, info |-> None,
                                out |-> <<<<job_id>>,
                                          <<"Running backtest for ", symbol, "...">>,
                                          FALSE>>]

---------------------------------------------------------------------------
(* _run_job: the worker thread, one step per cache-visible stage           *)

\* _run_job_try that also reports progress: an interim write of the entry
_run_job_try_progress(t) ==
    /\ t.pc = "try"
    /\ \E fetched \in get_ohlc :
        LET prices == load_prices(fetched)
            result == IF prices.raises THEN prices ELSE vwap_cross(prices.value)
            loaded == IF prices.raises THEN None ELSE prices.value
        IN  threads' = Replace(threads, t,
                IF result.raises
                THEN [t EXCEPT !.pc = "except", !.prices = loaded,
                               !.exc = [msg |-> result.error]]
                ELSE [t EXCEPT !.pc = "set", !.prices = loaded,
                               !.payload = Payload(result.value)])
    /\ task_cache' = Set(task_cache, t.job_id, RunningEntry)
    /\ writes' = Logged(writes, t.job_id, "_run_job", t.job_id, "running")
    /\ last' = "_run_job"
    /\ UNCHANGED <<returned, callback>>

\* _run_job_try whose except clause does not cover the exception raised by
\* vwap_cross: the exception leaves the thread
_run_job_try_uncaught(t) ==
    /\ t.pc = "try"
    /\ \E fetched \in get_ohlc :
        LET prices == load_prices(fetched)
            result == IF prices.raises THEN prices ELSE vwap_cross(prices.value)
            loaded == IF prices.raises THEN None ELSE prices.value
        IN  threads' = Replace(threads, t,
                IF result.raises
                THEN [t EXCEPT !.pc = IF prices.raises THEN "except" ELSE "crashed",
                               !.prices = loaded,
                               !.exc = [msg |-> result.error]]
                ELSE [t EXCEPT !.pc = "set", !.prices = loaded,
                               !.payload = Payload(result.value)])
    /\ last' = "_run_job"
    /\ UNCHANGED <<task_cache, returned, writes, callback>>

\* lines 24-31: load_prices, vwap_cross and the payload; an exception of
\* either call is caught by the except clause of line 33
_run_job_try(t) ==
    /\ t.pc = "try"
    /\ \E fetched \in get_ohlc :
        LET prices == load_prices(fetched)
            result == IF prices.raises THEN prices ELSE vwap_cross(prices.value)
            loaded == IF prices.raises THEN None ELSE prices.value
        IN  threads' = Replace(threads, t,
                IF result.raises
                THEN [t EXCEPT !.pc = "except", !.prices = loaded,
                               !.exc = [msg |-> result.error]]
                ELSE [t EXCEPT !.pc = "set", !.prices = loaded,
                               !.payload = Payload(result.value)])
    /\ last' = "_run_job"
    /\ UNCHANGED <<task_cache, returned, writes, callback>>

\* _run_job_set writing the status first and the lists in a second call
_run_job_set_two_phase(t) ==
    /\ t.pc = "set"
    /\ IF Get(task_cache, t.job_id) = RunningEntry
       THEN /\ task_cache' = Set(task_cache, t.job_id, [status |-> "done"])
            /\ threads' = threads
       ELSE /\ task_cache' = Set(task_cache, t.job_id, t.payload)
            /\ threads' = Replace(threads, t, [t EXCEPT !.pc = "finished"])
    /\ writes' = Logged(writes, t.job_id, "_run_job", t.job_id, t.payload.status)
    /\ last' = "_run_job"
    /\ UNCHANGED <<returned, callback>>

\* _run_job_set using the job id of the latest submit instead of its own
\* argument (a closure over a variable shared by the workers)
_run_job_set_latest(t) ==
    LET key == IF callback.handler = "_start_job" /\ callback.job_id # NoJob
               THEN callback.job_id ELSE t.job_id
    IN  /\ t.pc = "set"
        /\ task_cache' = Set(task_cache, key, t.payload)
        /\ writes' = Logged(writes, key, "_run_job", t.job_id, t.payload.status)
        /\ threads' = Replace(threads, t, [t EXCEPT !.pc = "finished"])
        /\ last' = "_run_job"
        /\ UNCHANGED <<returned, callback>>

\* line 32: task_cache.set(job_id, payload)
_run_job_set(t) ==
    /\ t.pc = "set"
    /\ task_cache' = Set(task_cache, t.job_id, t.payload)
    /\ writes' = Logged(writes, t.job_id, "_run_job", t.job_id, t.payload.status)
    /\ threads' = Replace(threads, t, [t EXCEPT !.pc = "finished"])
    /\ last' = "_run_job"
    /\ UNCHANGED <<returned, callback>>

\* lines 33-35: the except clause
_run_job_except(t) ==
    /\ t.pc = "except"
    /\ task_cache' = Set(task_cache, t.job_id, ErrorEntry(t.exc.msg))
    /\ writes' = Logged(writes, t.job_id, "_run_job", t.job_id, "error")
    /\ threads' = Replace(threads, t, [t EXCEPT !.pc = "finished"])
    /\ last' = "_run_job"
    /\ UNCHANGED <<returned, callback>>

_run_job(job_id) ==
    \E t \in BagToSet(threads) :
        /\ t.job_id = job_id
        /\ \/ _run_job_try(t)
           \/ _run_job_set(t)
           \/ _run_job_except(t)

---------------------------------------------------------------------------
(* _poll_status: the interval callback                                     *)

EmptyFigure == [data |-> <<>>, title |-> ""]

EquityFigure(index, equity) ==
    [data |-> <<[x |-> index, y |-> equity, mode |-> "lines", name |-> "Equity"]>>,
     title |-> "VWAP Cross Equity Curve"]

\* PollView rendering status error through the branch of status done
PollView_error_as_done(job_id, info) ==
    IF job_id = NoJob THEN <<no_update, EmptyFigure, TRUE>>
    ELSE IF info = None \/ info = EmptyDict
    THEN <<<<"Unknown job.">>, EmptyFigure, TRUE>>
    ELSE LET status == DictGet(info, "status", "None")
         IN  IF status = "running"
             THEN <<<<"Backtest running...">>, EmptyFigure, FALSE>>
             ELSE IF status \in {"done", "error"}
             THEN LET index == DictGet(info, "index", <<>>)
                      equity == DictGet(info, "equity", <<>>)
                  IN  <<<<"Backtest complete.">>,
                        IF index # <<>> /\ equity # <<>>
                        THEN EquityFigure(index, equity) ELSE EmptyFigure,
                        TRUE>>
             ELSE <<<<"Unknown status.">>, EmptyFigure, TRUE>>

\* the tuple (status children, figure, poll disabled) of lines 75-98
PollView(job_id, info) ==
    IF job_id = NoJob THEN <<no_update, EmptyFigure, TRUE>>
    ELSE IF info = None \/ info = EmptyDict
    THEN <<<<"Unknown job.">>, EmptyFigure, TRUE>>
    ELSE LET status == DictGet(info, "status", "None")
         IN  IF status = "running"
             THEN <<<<"Backtest running...">>, EmptyFigure, FALSE>>
             ELSE IF status = "error"
             THEN <<<<"Backtest failed: ", DictGet(info, "error", "None")>>,
                    EmptyFigure, TRUE>>
             ELSE IF status = "done"
             THEN LET index == DictGet(info, "index", <<>>)
                      equity == DictGet(info, "equity", <<>>)
                  IN  <<<<"Backtest complete.">>,
                        IF index # <<>> /\ equity # <<>>
                        THEN EquityFigure(index, equity) ELSE EmptyFigure,
                        TRUE>>
             ELSE <<<<"Unknown status.">>, EmptyFigure, TRUE>>

\* _poll_status that deletes an entry once it has delivered a terminal status
_poll_status_evict(job_id) ==
    LET info == IF job_id = NoJob THEN None ELSE Get(task_cache, job_id)
    IN  /\ callback' = [handler |-> "_poll_status", job_id |-> job_id, info |-> info,
                        out |-> PollView(job_id, info)]
        /\ last' = "_poll_status"
        /\ task_cache' = IF DictGet(info, "status", "None") \in {"done", "error"}
                         THEN [k \in DOMAIN task_cache \ {job_id} |-> task_cache[k]]
                         ELSE task_cache
        /\ UNCHANGED <<threads, returned, writes>>

_poll_status(job_id) ==
    LET info == IF job_id = NoJob THEN None ELSE Get(task_cache, job_id)
    IN  /\ callback' = [handler |-> "_poll_status", job_id |-> job_id, info |-> info,
                         out |-> PollView(job_id, info)]
        /\ last' = "_poll_status"
        /\ UNCHANGED <<task_cache, threads, returned, writes>>

---------------------------------------------------------------------------

\* The job runner touches neither the limiter, the journal nor the engine.
Next ==
    \/ \E symbol \in Symbols :
            _start_job(symbol) /\ UNCHANGED otherVars
    \/ \E job_id \in JobIds :
            _run_job(job_id) /\ UNCHANGED otherVars
    \/ \E job_id \in JobIds \cup {NoJob} :
            _poll_status(job_id) /\ UNCHANGED otherVars

Spec == Init /\ [][Next]_vars

\* each worker thread is scheduled until it returns
FairSpec ==
    Spec /\ \A job_id \in JobIds : WF_vars(_run_job(job_id) /\ UNCHANGED otherVars)

---------------------------------------------------------------------------
(* Properties                                                              *)

ThreadsOf(job_id) == {t \in BagToSet(threads) : t.job_id = job_id}

Terminal == {"done", "error"}

StatusOf(info) == DictGet(info, "status", "None")

\* the entry a worker writes when it completes
OwnEntry(t) == IF t.exc # None THEN ErrorEntry(t.exc.msg) ELSE t.payload

\* the worker of job_id has made its completion write
Completed(job_id) == \E t \in ThreadsOf(job_id) : t.pc = "finished"

StartWrite(job_id) == [by |-> "_start_job", job |-> job_id, status |-> "running"]

\* C1: a poll of a submitted job made before its worker's completion write
\* observes status running; a poll made after it observes the terminal
\* status the worker wrote; a terminal entry never changes again; and the
\* first write on every key is the running marker of _start_job.
C1_RunningThenTerminal ==
    /\ [](last = "_poll_status" /\ callback.job_id \in Issued =>
            IF Completed(callback.job_id)
            THEN /\ StatusOf(callback.info) \in Terminal
                 /\ \E t \in ThreadsOf(callback.job_id) : callback.info = OwnEntry(t)
            ELSE callback.info = RunningEntry)
    /\ [][\A j \in DOMAIN task_cache :
            StatusOf(task_cache[j]) \in Terminal =>
                j \in DOMAIN task_cache' /\ task_cache'[j] = task_cache[j]]_vars
    /\ [](\A j \in JobIds : writes[j] # <<>> => writes[j][1] = StartWrite(j))

\* a poll has just observed the terminal status of a submitted job
C1_Witness ==
    /\ last = "_poll_status"
    /\ callback.job_id \in Issued
    /\ Completed(callback.job_id)
    /\ StatusOf(callback.info) \in Terminal

\* C2: after the running marker a key is written exactly once more, by the
\* job's own worker, with status done or error, on every path of the worker;
\* there is no interim write and a terminal entry is never written again.
C2_WrittenOnceByWorker ==
    /\ [](\A j \in JobIds :
            /\ Len(writes[j]) <= 2
            /\ Len(writes[j]) >= 1 => writes[j][1] = StartWrite(j)
            /\ Len(writes[j]) = 2 =>
                  /\ writes[j][2].by = "_run_job" /\ writes[j][2].job = j
                  /\ writes[j][2].status \in Terminal
            /\ Completed(j) => Len(writes[j]) = 2
            /\ (\E t \in ThreadsOf(j) : t.pc # "finished") => Len(writes[j]) = 1)
    /\ [][\A j \in DOMAIN task_cache :
            StatusOf(task_cache[j]) \in Terminal => writes'[j] = writes[j]]_vars

\* two workers have completed, one with done and one with error
C2_Witness ==
    \E j, k \in JobIds :
        /\ Len(writes[j]) = 2 /\ writes[j][2].status = "done"
        /\ Len(writes[k]) = 2 /\ writes[k][2].status = "error"

\* C3: when load_prices or vwap_cross raises inside the worker, the worker
\* is in its except clause or has returned (the exception never leaves the
\* thread), the job never shows status done, the entry the worker leaves is
\* {status: error, error: message}, and the entry does become error.
C3_ExceptionBecomesError ==
    /\ [](\A t \in BagToSet(threads) :
            t.exc # None =>
                /\ t.pc \in {"except", "finished"}
                /\ StatusOf(Get(task_cache, t.job_id)) # "done"
                /\ t.pc = "finished" =>
                      Get(task_cache, t.job_id) = ErrorEntry(t.exc.msg))
    /\ \A j \in JobIds :
          (\E t \in ThreadsOf(j) : t.exc # None)
              ~> (StatusOf(Get(task_cache, j)) = "error")

\* one worker has recorded a failed fetch and another a failed computation
C3_Witness ==
    \E t, u \in BagToSet(threads) :
        /\ t.pc = "finished" /\ t.exc # None /\ t.prices = None
        /\ u.pc = "finished" /\ u.exc # None /\ u.prices # None
        /\ Get(task_cache, t.job_id) = ErrorEntry("fetch failed")
        /\ Get(task_cache, u.job_id) = ErrorEntry("'close'")

\* C4: under fair scheduling of its worker every job whose entry is running
\* is eventually written as done or error, whatever callbacks run or do not
\* run; every submitted job has exactly one worker, which is never removed
\* (cancelled) and never started a second time (retried).
C4_EventuallyTerminal ==
    /\ \A j \in JobIds :
          (Get(task_cache, j) = RunningEntry)
              ~> (StatusOf(Get(task_cache, j)) \in Terminal)
    /\ [](/\ BagCardinality(threads) = Cardinality(Issued)
          /\ \A j \in Issued : ThreadsOf(j) # {})
    /\ [][\A j \in JobIds : Completed(j) => Completed(j)']_vars

\* a job was submitted, never polled, and its worker has completed
C4_Witness ==
    /\ callback.handler = "_start_job"
    /\ callback.job_id # NoJob
    /\ Completed(callback.job_id)
    /\ StatusOf(Get(task_cache, callback.job_id)) \in Terminal

\* C5: no identifier is returned by two submits; when a submit returns, the
\* entry under the returned id is the running marker and it is the only
\* write made on that key; a poll of a returned id observes the running
\* marker or the entry written by that job's own worker, never another's.
C5_FreshIdRunningFirst ==
    /\ \A j \in JobIds : returned[j] <= 1
    /\ last = "_start_job" /\ callback.job_id # NoJob =>
          /\ Get(task_cache, callback.job_id) = RunningEntry
          /\ writes[callback.job_id] = <<StartWrite(callback.job_id)>>
    /\ last = "_poll_status" /\ callback.job_id \in Issued =>
          \/ callback.info = RunningEntry
          \/ \E t \in ThreadsOf(callback.job_id) :
                t.pc = "finished" /\ callback.info = OwnEntry(t)

\* a poll of a new id observes running after an earlier job has completed
C5_Witness ==
    /\ last = "_poll_status"
    /\ callback.job_id \in Issued
    /\ callback.info = RunningEntry
    /\ \E k \in JobIds \ {callback.job_id} : Completed(k)

\* a stored dict is a whole running, done or error entry
Complete(info) ==
    \/ info = RunningEntry
    \/ /\ DOMAIN info = {"status", "equity", "index"}
       /\ info.status = "done"
       /\ Len(info.equity) = Len(info.index)
    \/ /\ DOMAIN info = {"status", "error"}
       /\ info.status = "error"

\* C6: with workers and polls interleaved, every entry in the cache and
\* every entry a poll reads is a whole running entry or a whole terminal
\* entry (done with both lists, error with its message only), and a done
\* entry with data is rendered with both of its lists.
C6_PollSeesWholeEntry ==
    /\ \A j \in DOMAIN task_cache : Complete(task_cache[j])
    /\ last = "_poll_status" /\ callback.info # None =>
          /\ Complete(callback.info)
          /\ StatusOf(callback.info) = "done" /\ callback.info.equity # <<>> =>
                callback.out[2] = EquityFigure(callback.info.index, callback.info.equity)

\* a poll has read a done entry with data while another worker is between
\* its computation and its write
C6_Witness ==
    /\ last = "_poll_status"
    /\ StatusOf(callback.info) = "done"
    /\ callback.info.equity # <<>>
    /\ \E t \in BagToSet(threads) : t.pc = "set" /\ t.job_id # callback.job_id

\* the entry a worker leaves, as a function of what its own fetch returned
ExpectedEntry(t) ==
    IF t.prices = None THEN ErrorEntry(t.exc.msg)
    ELSE LET result == vwap_cross(t.prices)
         IN  IF result.raises THEN ErrorEntry(result.error) ELSE Payload(result.value)

C8_PollIsPureRead ==
    /\ [][last' = "_poll_status" =>
            task_cache' = task_cache /\ writes' = writes /\ threads' = threads]_vars
    /\ [](last = "_poll_status" /\ callback.job_id # NoJob
            /\ callback.job_id \notin DOMAIN task_cache =>
                /\ callback.info = None
                /\ callback.out = <<<<"Unknown job.">>, EmptyFigure, TRUE>>)

\* an unknown id has been polled while other jobs have entries
C8_Witness ==
    /\ last = "_poll_status"
    /\ callback.job_id # NoJob
    /\ callback.job_id \notin DOMAIN task_cache
    /\ callback.out[1] = <<"Unknown job.">>
    /\ \E j \in DOMAIN task_cache : StatusOf(task_cache[j]) \in Terminal

EmptyPayload == [status |-> "done", equity |-> <<>>, index |-> <<>>]

\* C9: a worker whose fetch returned an empty frame raises nothing, builds
\* the done payload with empty equity and index lists, and leaves exactly
\* that entry; the job never shows status error.
C9_EmptySeriesIsDone ==
    \A t \in BagToSet(threads) :
        (t.prices # None /\ empty(t.prices)) =>
            /\ t.exc = None
            /\ t.pc \in {"set", "finished"}
            /\ t.payload = EmptyPayload
            /\ StatusOf(Get(task_cache, t.job_id)) # "error"
            /\ t.pc = "finished" => Get(task_cache, t.job_id) = EmptyPayload

\* a worker that fetched an empty frame has written its entry
C9_Witness ==
    \E t \in BagToSet(threads) :
        /\ t.prices # None /\ empty(t.prices)
        /\ t.pc = "finished"
        /\ Get(task_cache, t.job_id) = EmptyPayload

RunningView == <<<<"Backtest running...">>, EmptyFigure, FALSE>>
NoDataView == <<<<"Backtest complete.">>, EmptyFigure, TRUE>>
IsFailedView(out) == out[1][1] = "Backtest failed: " /\ out[2] = EmptyFigure /\ out[3]

\* C10: for an entry read by a poll, the running view is returned exactly
\* for status running, the no-data view (complete, empty figure) exactly
\* for status done with empty lists, and the failed view exactly for status
\* error; the three views differ from one another.
C10_ViewsMapOneToOne ==
    last = "_poll_status" /\ callback.info # None =>
        /\ callback.out = RunningView <=> StatusOf(callback.info) = "running"
        /\ callback.out = NoDataView <=>
              (StatusOf(callback.info) = "done"
                  /\ callback.info.equity = <<>> /\ callback.info.index = <<>>)
        /\ IsFailedView(callback.out) <=> StatusOf(callback.info) = "error"
        /\ RunningView # NoDataView /\ ~IsFailedView(RunningView) /\ ~IsFailedView(NoDataView)

\* a poll has returned the no-data view
C10_Witness ==
    /\ last = "_poll_status"
    /\ callback.info = EmptyPayload
    /\ callback.out = NoDataView


---------------------------------------------------------------------------
(* The /health endpoint and the rate limiter                               *)
(*   src/app.py (healthcheck), src/rizzk/core/security.py (RateLimiter)    *)

\* HEALTH_RATE_LIMIT and HEALTH_RATE_WINDOW as the environment sets them
HEALTH_RATE_LIMIT == 2
HEALTH_RATE_WINDOW == 2

\* Client keys (remote addresses), the last clock reading, requests served,
\* callers inside allow() at one time
Keys == {"10.0.0.1", "10.0.0.2"}
MaxClock == 3
MaxRequests == 4
MaxCallers == 2

Max(a, b) == IF a > b THEN a ELSE b

\* RateLimiter.__init__
limit == Max(1, HEALTH_RATE_LIMIT)
window_seconds == Max(1, HEALTH_RATE_WINDOW)

\* while hits and hits[0] < window_start: hits.popleft()
RECURSIVE popleft_expired(_, _)
popleft_expired(hits, window_start) ==
    IF hits # <<>> /\ hits[1] < window_start
    THEN popleft_expired(Tail(hits), window_start)
    ELSE hits

\* variant: one deque shared by all keys
HitsOfAnyKey(key) ==
    IF DOMAIN _hits = {} THEN <<>> ELSE _hits[CHOOSE k \in DOMAIN _hits : TRUE]

\* _hits is a defaultdict(deque): a key never touched holds no deque
HitsOf(key) == IF key \in DOMAIN _hits THEN _hits[key] ELSE <<>>

\* lines 23-30, RateLimiter.allow(key) under its lock with the `now` it read
\* before: the verdict and the deque it leaves
allow(key, now) ==
    LET window_start == now - window_seconds
        hits == popleft_expired(HitsOf(key), window_start)
    IN  IF Len(hits) >= limit
        THEN [allowed |-> FALSE, hits |-> hits]
        ELSE [allowed |-> TRUE, hits |-> Append(hits, now)]

\* lines 21-22: a caller reads the clock; the lock is not held yet
allow_now(key) ==
    /\ Len(verdicts) + BagCardinality(pending) < MaxRequests
    /\ BagCardinality(pending) < MaxCallers
    /\ pending' = pending (+) SetToBag({[key |-> key, now |-> clock]})
    /\ UNCHANGED <<clock, _hits, verdicts, responses, jobVars, journalVars, call, frameVars, pageVars, daemonVars>>

\* lines 23-30: one of the waiting callers takes the lock
allow_locked(c) ==
    /\ BagIn(c, pending)
    /\ pending' = pending (-) SetToBag({c})
    /\ _hits' = [k \in DOMAIN _hits \cup {c.key} |->
                    IF k = c.key THEN allow(c.key, c.now).hits ELSE HitsOf(k)]
    /\ verdicts' = Append(verdicts,
            [op |-> "allow", key |-> c.key, at |-> c.now,
             allowed |-> allow(c.key, c.now).allowed,
             before |-> HitsOf(c.key), after |-> allow(c.key, c.now).hits])
    /\ UNCHANGED <<clock, responses, jobVars, journalVars, call, frameVars, pageVars, daemonVars>>

\* RateLimiter.reset(), under the lock
reset ==
    /\ Len(verdicts) + BagCardinality(pending) < MaxRequests
    /\ _hits' = <<>>
    /\ verdicts' = Append(verdicts, [op |-> "reset", at |-> clock])
    /\ UNCHANGED <<clock, pending, responses, jobVars, journalVars, call, frameVars, pageVars, daemonVars>>

\* time.monotonic() advances
Tick ==
    /\ clock < MaxClock
    /\ clock' = clock + 1
    /\ UNCHANGED <<_hits, responses, jobVars, journalVars, call, restVars>>

Response(key, status, ok, error) ==
    [key |-> key, at |-> clock, status |-> status, ok |-> ok, error |-> error]

\* GET /health from the client `key`: jsonify({"ok": True}), status 200
healthcheck(key) ==
    /\ Len(responses) < MaxRequests
    /\ responses' = Append(responses, Response(key, 200, TRUE, ""))
    /\ UNCHANGED <<clock, _hits, jobVars, journalVars, call, restVars>>

HealthNext ==
    \/ \E key \in Keys : healthcheck(key)
    \/ Tick

HealthSpec == Init /\ [][HealthNext]_vars

LimiterNext ==
    \/ \E key \in Keys : allow_now(key)
    \/ \E c \in BagToSet(pending) : allow_locked(c)
    \/ reset
    \/ Tick

LimiterSpec == Init /\ [][LimiterNext]_vars

\* The requests of the same client that were let through (200) inside the
\* window of window_seconds ending at request i
AllowedBefore(i) ==
    {j \in 1..(i - 1) :
        /\ responses[j].key = responses[i].key
        /\ responses[j].status = 200
        /\ responses[j].at >= responses[i].at - window_seconds}

\* C11: per client key the first `limit` requests inside a window are
\* answered 200 {ok: true} and every further request inside the window is
\* answered 429 {ok: false, error: rate_limited}.
C11_HealthIsRateLimited ==
    \A i \in DOMAIN responses :
        IF Cardinality(AllowedBefore(i)) >= limit
        THEN /\ responses[i].status = 429
             /\ responses[i].ok = FALSE
             /\ responses[i].error = "rate_limited"
        ELSE /\ responses[i].status = 200
             /\ responses[i].ok = TRUE


---------------------------------------------------------------------------
(* Trade entry and the journal                                             *)
(*   src/apps/rizzk_pro/risk.py (validate_trade), journal.py (save_trade,  *)
(*   fetch_trades), rizzk_pro.py (the trade_entry form),                   *)
(*   src/scripts/trade_add.py (the CLI), src/scripts/db_init.py (schema)   *)
(* A payload value is None, a number Num(n) or a string Str(s). The trades *)
(* table is the list of its rows in ROWID order.                           *)

Num(n) == [num |-> n]
Str(s) == [str |-> s]
IsNum(value) == "num" \in DOMAIN value

\* ids that uuid4 and the callers use; save attempts made in one run
TradeIds == {"t1", "t2"}
MaxSaves == 2

Today == "2024-01-02"

\* validate_trade on floats (argparse and st.number_input deliver floats)
validate_trade(entry, stop, qty, max_risk_dollars) ==
    LET per_share == Abs(entry - stop)
        exposure == per_share * Max(qty, 0)
    IN  IF per_share <= 0
        THEN [ok |-> FALSE, msg |-> "Entry and stop must differ to compute risk.", exposure |-> 0]
        ELSE IF exposure <= 0
        THEN [ok |-> FALSE, msg |-> "Quantity must be positive.", exposure |-> 0]
        ELSE IF exposure > max_risk_dollars
        THEN [ok |-> FALSE, msg |-> "Risk exceeds limit.", exposure |-> exposure]
        ELSE [ok |-> TRUE, msg |-> "", exposure |-> exposure]

\* float(value), or None for None, "" and a string that is no number
_coerce_numeric(value) ==
    IF value = None \/ value = Str("") THEN None
    ELSE IF IsNum(value) THEN value
    ELSE None

\* Python's `x or 0.0`
OrZero(value) == IF value = None \/ value.num = 0 THEN 0 ELSE value.num

\* The dict save_trade binds to the INSERT: the payload with id, date and
\* side filled in, risk and reward recomputed where due, rr derived.
TradeRow(payload, trade_id) ==
    LET risk0 == OrZero(_coerce_numeric(payload.risk))
        reward0 == OrZero(_coerce_numeric(payload.reward))
        qty == OrZero(_coerce_numeric(payload.qty))
        entry == _coerce_numeric(payload.entry)
        exit_price == _coerce_numeric(payload.exit)
        stop == _coerce_numeric(payload.stop)
        new_risk == risk0 <= 0 /\ qty # 0 /\ entry # None /\ stop # None
        risk == IF new_risk THEN Abs(entry.num - stop.num) * qty ELSE risk0
        new_reward == reward0 <= 0 /\ qty # 0 /\ entry # None /\ exit_price # None
        reward == IF new_reward THEN Abs(exit_price.num - entry.num) * qty ELSE reward0
    IN  [id |-> trade_id,
         date |-> IF payload.date = "" THEN Today ELSE payload.date,
         ticker |-> payload.ticker,
         side |-> IF payload.side = "" THEN "long" ELSE payload.side,
         entry |-> payload.entry,
         exit |-> payload.exit,
         stop |-> payload.stop,
         qty |-> payload.qty,
         risk |-> IF new_risk THEN Num(risk) ELSE payload.risk,
         reward |-> IF new_reward THEN Num(reward) ELSE payload.reward,
         rr |-> IF risk <= 0 THEN None
                ELSE IF reward # 0 THEN Num(Rat(reward, risk)) ELSE Num(RInt(0))]

\* The constraints of CREATE TABLE trades that a row can break here
SchemaAccepts(row) == row.side \in {"long", "short"}

\* variant: a plain INSERT into a table without the PRIMARY KEY
insert_plain(table, row) == Append(table, row)

\* INSERT OR REPLACE: a row with the same PRIMARY KEY is deleted first
insert_or_replace(table, row) ==
    Append(SelectSeq(table, LAMBDA r : r.id # row.id), row)

\* trade_id[:6] (the ids used here have at most six characters)
Prefix6(trade_id) == trade_id

ExportName(row) == [date |-> row.date, ticker |-> row.ticker, id6 |-> Prefix6(row.id)]

\* trade.get("id") or str(uuid.uuid4()): uuid4 is an id no row has
IdsFor(payload) ==
    IF payload.id # "" THEN {payload.id}
    ELSE TradeIds \ {trades[i].id : i \in DOMAIN trades}

Saves == IF attempt = None THEN 0 ELSE attempt.n

\* save_trade(payload) called on behalf of `path` with the inputs `args`:
\* the INSERT raises sqlite3.IntegrityError, or the row and the note are
\* written and (trade_id, export_path) is returned.
save_trade_from(path, args, payload) ==
    /\ Saves < MaxSaves
    /\ \E trade_id \in IdsFor(payload) :
        LET row == TradeRow(payload, trade_id) IN
        IF SchemaAccepts(row)
        THEN /\ trades' = insert_or_replace(trades, row)
             /\ exports' = exports \cup {ExportName(row)}
             /\ attempt' = [n |-> Saves + 1, path |-> path, args |-> args,
                            payload |-> payload, outcome |-> "saved",
                            id |-> trade_id, note |-> ExportName(row)]
        ELSE /\ attempt' = [n |-> Saves + 1, path |-> path, args |-> args,
                            payload |-> payload, outcome |-> "IntegrityError",
                            id |-> "", note |-> None]
             /\ UNCHANGED <<trades, exports>>
    /\ UNCHANGED <<jobVars, healthVars, call, restVars>>

\* an entry attempt that ends before save_trade is reached
Rejected(path, args, msg) ==
    /\ Saves < MaxSaves
    /\ attempt' = [n |-> Saves + 1, path |-> path, args |-> args,
                   payload |-> None, outcome |-> msg, id |-> "", note |-> None]
    /\ UNCHANGED <<trades, exports, jobVars, healthVars, call, restVars>>

\* fetch_trades(): SELECT * FROM trades ORDER BY ... ROWID DESC (the rows
\* newest first; the ordering by date is left out, dates are not compared)
fetch_trades == [i \in 1..Len(trades) |-> trades[Len(trades) + 1 - i]]


\* Inputs of the two entry paths
Prices == {8, 10}
ExitPrices == {0, 13}
RiskLimits == {3, 10}
RiskOverrides == {0, 5}

FormPayload(ticker, entry, stop, exit, qty, risk, reward) ==
    [id |-> "", date |-> "2024-01-01", ticker |-> ticker, side |-> "long",
     entry |-> Num(entry), stop |-> Num(stop), exit |-> Num(exit),
     qty |-> Num(qty), risk |-> Num(risk), reward |-> Num(reward)]

EntryArgs(entry, stop, qty, max_risk) ==
    [entry |-> entry, stop |-> stop, qty |-> qty, limit |-> max_risk]

\* The trade_entry form of the journal tab, once submitted
trade_entry(trade_ticker, entry_price, stop_price, exit_price, quantity, override_risk, override_reward, max_risk_dollars) ==
    LET args == EntryArgs(entry_price, stop_price, quantity, max_risk_dollars)
        v == validate_trade(entry_price, stop_price, quantity, max_risk_dollars)
        risk_value == IF override_risk > 0 THEN override_risk ELSE v.exposure
        reward_value ==
            IF override_reward <= 0 /\ exit_price # 0 /\ entry_price # 0
            THEN Abs(exit_price - entry_price) * quantity
            ELSE override_reward
    IN  IF trade_ticker = "" THEN Rejected("trade_entry", args, "Ticker is required.")
        ELSE IF ~v.ok THEN Rejected("trade_entry", args, v.msg)
        ELSE save_trade_from("trade_entry", args,
                FormPayload(trade_ticker, entry_price, stop_price, exit_price,
                            quantity, risk_value, reward_value))

\* trade_add.py
compute_reward(entry, exit_price, qty, override) ==
    IF override > 0 THEN override
    ELSE IF exit_price > 0 /\ qty > 0 THEN Abs(exit_price - entry) * qty
    ELSE 0

compute_risk(entry, stop, qty, override, max_risk) ==
    IF override > 0 THEN Returns(override)
    ELSE LET v == validate_trade(entry, stop, qty, max_risk)
         IN  IF ~v.ok THEN Raises(v.msg) ELSE Returns(v.exposure)

\* trade_add.main() with the parsed arguments
trade_add(entry, stop, exit_price, qty, risk_override, reward_override, max_risk) ==
    LET args == EntryArgs(entry, stop, qty, max_risk)
        reward == compute_reward(entry, exit_price, qty, reward_override)
        risk == compute_risk(entry, stop, qty, risk_override, max_risk)
    IN  IF risk.raises THEN Rejected("trade_add", args, risk.error)
        ELSE save_trade_from("trade_add", args,
                FormPayload("AAPL", entry, stop, exit_price, qty, risk.value, reward))

\* Payloads handed to save_trade directly: the one of test_journal_roundtrip
\* (scaled down) and variations of it
TestPayload ==
    [id |-> "", date |-> "2024-01-01", ticker |-> "MSFT", side |-> "long",
     entry |-> Num(10), stop |-> Num(8), exit |-> Num(13),
     qty |-> Num(2), risk |-> Num(4), reward |-> Num(6)]

Payloads ==
    { TestPayload,
      [TestPayload EXCEPT !.risk = Num(0), !.reward = Num(0)],
      [TestPayload EXCEPT !.risk = None, !.reward = Str(""), !.date = "", !.side = ""],
      [TestPayload EXCEPT !.qty = Num(-2), !.risk = Num(0), !.reward = Num(0)],
      [TestPayload EXCEPT !.qty = Num(-2), !.reward = Num(0)],
      [TestPayload EXCEPT !.qty = Num(0), !.reward = Num(-3)],
      [TestPayload EXCEPT !.qty = Num(0), !.risk = Num(-4)],
      [TestPayload EXCEPT !.entry = None, !.stop = None, !.exit = None,
                          !.qty = Str("many"), !.risk = None, !.reward = None],
      [TestPayload EXCEPT !.side = "buy"] }

\* save_trade(payload) called directly, with or without an id
save_trade(payload, id) ==
    save_trade_from("save_trade", None, [payload EXCEPT !.id = id])

JournalNext ==
    \/ \E ticker \in {"", "AAPL"}, stop \in Prices, exit \in ExitPrices,
          qty \in {0, 2}, override \in RiskOverrides, max_risk \in RiskLimits :
            trade_entry(ticker, 10, stop, exit, qty, override, 0, max_risk)
    \/ \E stop \in Prices, exit \in ExitPrices, qty \in {-2, 2},
          override \in RiskOverrides, max_risk \in RiskLimits :
            trade_add(10, stop, exit, qty, override, 0, max_risk)
    \/ \E payload \in Payloads, id \in TradeIds \cup {""} :
            save_trade(payload, id)

JournalSpec == Init /\ [][JournalNext]_vars

\* C12: on the journal form and on the trade_add CLI a trade whose entry,
\* stop, quantity and risk limit validate_trade rejects is not written: the
\* attempt ends without a row and without an export note.
C12_EntryPathsValidate ==
    (attempt # None /\ attempt.path \in {"trade_entry", "trade_add"})
        => (~validate_trade(attempt.args.entry, attempt.args.stop,
                            attempt.args.qty, attempt.args.limit).ok
                => attempt.outcome # "saved")


\* C13: after any sequence of save_trade calls every row of the trades
\* table has rr NULL or greater than or equal to 0.
C13_RrNullOrNonNegative ==
    \A i \in DOMAIN trades : trades[i].rr = None \/ trades[i].rr.num[1] >= 0


\* the rows fetch_trades() returns for the id the latest save_trade returned
RowsOfSaved ==
    {i \in DOMAIN fetch_trades : fetch_trades[i].id = attempt.id}

SavedRow == fetch_trades[CHOOSE i \in RowsOfSaved : TRUE]

HoldsGivenFields(row, payload) ==
    /\ row.ticker = payload.ticker
    /\ row.entry = payload.entry /\ row.exit = payload.exit
    /\ row.stop = payload.stop /\ row.qty = payload.qty
    /\ row.date = (IF payload.date = "" THEN Today ELSE payload.date)
    /\ row.side = (IF payload.side = "" THEN "long" ELSE payload.side)

IsPositive(value) == value # None /\ IsNum(value) /\ value.num > 0

UniqueIds ==
    \A i, j \in DOMAIN trades : trades[i].id = trades[j].id => i = j

\* C14 as stated: after save_trade(payload) returned id t, fetch_trades()
\* has exactly one row with id t, that row holds the payload's fields, the
\* export note exists, and no two rows share an id.
C14_RowHoldsPayload ==
    (attempt # None /\ attempt.outcome = "saved") =>
        /\ Cardinality(RowsOfSaved) = 1
        /\ HoldsGivenFields(SavedRow, attempt.payload)
        /\ SavedRow.risk = attempt.payload.risk
        /\ SavedRow.reward = attempt.payload.reward
        /\ attempt.note \in exports
        /\ UniqueIds

\* C14 (amended): after save_trade(payload) returned id t, fetch_trades()
\* has exactly one row with id t; it holds the payload's ticker, entry,
\* exit, stop and qty, its date and side (today and "long" where the payload
\* leaves them empty) and its risk and reward where those are positive; the
\* export note exists; no two rows ever share an id, so saving again with
\* the same id replaces the row.
C14_RowHoldsNormalisedPayload ==
    /\ UniqueIds
    /\ (attempt # None /\ attempt.outcome = "saved") =>
        /\ Cardinality(RowsOfSaved) = 1
        /\ HoldsGivenFields(SavedRow, attempt.payload)
        /\ IsPositive(attempt.payload.risk) => SavedRow.risk = attempt.payload.risk
        /\ IsPositive(attempt.payload.reward) => SavedRow.reward = attempt.payload.reward
        /\ attempt.note \in exports

\* a second save with the id of the first has replaced its row
C14_Witness ==
    /\ attempt # None /\ attempt.outcome = "saved" /\ attempt.n = 2
    /\ attempt.path = "save_trade"
    /\ IsPositive(attempt.payload.risk) /\ IsPositive(attempt.payload.reward)
    /\ Len(trades) = 1
    /\ Cardinality(exports) = 2


---------------------------------------------------------------------------
(* float64 values of pandas: a finite value is a rational <<n, d>> in      *)
(* lowest terms with d > 0; <<0, 0>> is NaN, <<1, 0>> is +inf, <<-1, 0>>   *)
(* is -inf. Rounding is not modelled and -0.0 is identified with 0.0.      *)

NaN == <<0, 0>>
PosInf == <<1, 0>>
NegInf == <<-1, 0>>
isnan(x) == x = NaN
isinf(x) == x[2] = 0 /\ x[1] # 0
isfinite(x) == x[2] # 0
Sign(n) == IF n > 0 THEN 1 ELSE IF n < 0 THEN -1 ELSE 0

FNeg(x) == <<-x[1], x[2]>>

\* sum and product of two finite values, cancelling common factors first
QAdd(x, y) ==
    LET g == GCD(x[2], y[2])
    IN  Rat(x[1] * (y[2] \div g) + y[1] * (x[2] \div g), (x[2] \div g) * y[2])

QMul(x, y) ==
    LET g1 == GCD(Abs(x[1]), y[2])
        g2 == GCD(Abs(y[1]), x[2])
    IN  <<(x[1] \div g1) * (y[1] \div g2), (x[2] \div g2) * (y[2] \div g1)>>

\* 1 / y for a finite y other than 0
QInv(y) == IF y[1] < 0 THEN <<-y[2], -y[1]>> ELSE <<y[2], y[1]>>

FAdd(x, y) ==
    IF isnan(x) \/ isnan(y) THEN NaN
    ELSE IF isinf(x) THEN (IF isinf(y) /\ y # x THEN NaN ELSE x)
    ELSE IF isinf(y) THEN y
    ELSE QAdd(x, y)

FSub(x, y) == FAdd(x, FNeg(y))

FMul(x, y) ==
    IF isnan(x) \/ isnan(y) THEN NaN
    ELSE IF isinf(x) \/ isinf(y)
         THEN (IF x[1] = 0 \/ y[1] = 0 THEN NaN ELSE <<Sign(x[1]) * Sign(y[1]), 0>>)
    ELSE QMul(x, y)

FDiv(x, y) ==
    IF isnan(x) \/ isnan(y) THEN NaN
    ELSE IF isinf(y) THEN (IF isinf(x) THEN NaN ELSE RInt(0))
    ELSE IF y[1] = 0 THEN (IF x[1] = 0 THEN NaN ELSE <<Sign(x[1]), 0>>)
    ELSE IF isinf(x) THEN <<Sign(x[1]) * Sign(y[1]), 0>>
    ELSE QMul(x, QInv(y))

\* x < y (False whenever an operand is NaN)
FLt(x, y) ==
    /\ ~isnan(x) /\ ~isnan(y) /\ x # y
    /\ IF isinf(x) THEN x = NegInf
       ELSE IF isinf(y) THEN y = PosInf
       ELSE x[1] * y[2] < y[1] * x[2]

FLe(x, y) == ~isnan(x) /\ ~isnan(y) /\ (x = y \/ FLt(x, y))

---------------------------------------------------------------------------
(* Indicators of src/apps/rizzk_pro/rizzk_pro.py (the copy under           *)
(* src/Rizzk-Trading-Terminal-2 is the same code). A series is the list of *)
(* its cells; a raw cell is None, a number Num(n) or a string Str(s).      *)

\* bars per series, the largest cell value, the largest window
MaxBars == 3
MaxPrice == 3
MaxWin == 3

Cells == {Num(n) : n \in 0..MaxPrice} \cup {None}

RECURSIVE SeqsUpTo(_, _)
SeqsUpTo(S, n) ==
    IF n = 0 THEN {<<>>}
    ELSE LET shorter == SeqsUpTo(S, n - 1)
         IN  shorter \cup {Append(s, x) : s \in {q \in shorter : Len(q) = n - 1}, x \in S}

\* the windows the callers pass are 2 and more (st.number_input), 14, 20, 50
Windows == 1..MaxWin

\* a series held as the list of its values (a pandas Series is stored, not
\* recomputed at every access)
values(s) == SubSeq(s, 1, Len(s))

\* pd.to_numeric(series, errors="coerce").astype("float64")
as_float_series(series) ==
    [t \in 1..Len(series) |-> IF IsNum(series[t]) THEN RInt(series[t].num) ELSE NaN]

\* the positions a rolling window of `win` bars ending at t covers
Window(t, win) == {i \in 1..t : i > t - win}

RECURSIVE nansum(_, _)
nansum(s, idx) ==
    IF idx = {} THEN RInt(0)
    ELSE LET i == CHOOSE j \in idx : TRUE
         IN  IF isnan(s[i]) THEN nansum(s, idx \ {i})
             ELSE FAdd(s[i], nansum(s, idx \ {i}))

Observed(s, idx) == {i \in idx : ~isnan(s[i])}

\* variant: rolling(win).mean() with the default min_periods = win
rolling_mean_full(s, win) ==
    [t \in 1..Len(s) |->
        IF Cardinality(Observed(s, Window(t, win))) < win THEN NaN
        ELSE FDiv(nansum(s, Window(t, win)), RInt(win))]

\* s.rolling(win, min_periods=1).mean(): the mean of the observed (non-NaN)
\* values in the window, NaN where there is none
rolling_mean(s, win) ==
    [t \in 1..Len(s) |->
        LET n == Cardinality(Observed(s, Window(t, win)))
        IN  IF n < 1 THEN NaN ELSE FDiv(nansum(s, Window(t, win)), RInt(n))]

\* rolling() rejects a window below min_periods = 1 with a ValueError
sma(series, win) ==
    IF win < 1 THEN Raises("ValueError")
    ELSE Returns(rolling_mean(as_float_series(series), win))


\* s.diff(): NaN at the first bar
diff(s) == [t \in 1..Len(s) |-> IF t = 1 THEN NaN ELSE FSub(s[t], s[t - 1])]

\* clip(lower=0) and clip(upper=0); NaN stays NaN
clip_lower0(x) == IF FLt(x, RInt(0)) THEN RInt(0) ELSE x
clip_upper0(x) == IF FLt(RInt(0), x) THEN RInt(0) ELSE x

\* roll_up / roll_down.replace(0, np.nan), then 100 - (100 / (1 + rs))
rsi_value(roll_up, roll_down) ==
    LET rs == FDiv(roll_up, IF roll_down = RInt(0) THEN NaN ELSE roll_down)
    IN  FSub(RInt(100), FDiv(RInt(100), FAdd(RInt(1), rs)))

rsi_bars(series, win) ==
    LET s == as_float_series(series)
        delta == diff(s)
        up == [t \in 1..Len(s) |-> clip_lower0(delta[t])]
        down == [t \in 1..Len(s) |-> FNeg(clip_upper0(delta[t]))]
        roll_up == rolling_mean(up, win)
        roll_down == rolling_mean(down, win)
    IN  [t \in 1..Len(s) |->
            [gain |-> roll_up[t], loss |-> roll_down[t],
             out |-> rsi_value(roll_up[t], roll_down[t])]]

\* variant: rsi without the final fillna(50.0)
rsi_no_fillna(series, win) ==
    IF win < 1 THEN Raises("ValueError")
    ELSE Returns([t \in 1..Len(series) |-> rsi_bars(series, win)[t].out])

rsi(series, win) ==
    IF win < 1 THEN Raises("ValueError")
    ELSE LET bars == rsi_bars(series, win)
         IN  Returns([t \in 1..Len(series) |->
                        IF isnan(bars[t].out) THEN RInt(50) ELSE bars[t].out])

\* Evaluations of the indicator library: one function applied to one input
Series == SeqsUpTo(Cells, MaxBars)

EmptyFrames == {Frame({}, <<>>), Frame(AllCols, <<>>)}

apply_sma(series, win) ==
    /\ call = None
    /\ call' = [fn |-> "sma", series |-> series, win |-> win, out |-> sma(series, win)]
    /\ UNCHANGED <<jobVars, healthVars, journalVars, restVars>>

apply_rsi(series, win) ==
    /\ call = None
    /\ call' = [fn |-> "rsi", series |-> series, win |-> win, out |-> rsi(series, win)]
    /\ UNCHANGED <<jobVars, healthVars, journalVars, restVars>>

apply_vwap_cross(df) ==
    /\ call = None
    /\ call' = [fn |-> "vwap_cross", df |-> df, out |-> vwap_cross(df)]
    /\ UNCHANGED <<jobVars, healthVars, journalVars, restVars>>

IndicatorNext ==
    \/ \E series \in Series, win \in Windows : apply_sma(series, win)
    \/ \E series \in Series, win \in Windows : apply_rsi(series, win)
    \/ \E df \in Frames \cup EmptyFrames : apply_vwap_cross(df)

IndicatorSpec == Init /\ [][IndicatorNext]_vars

Called(fn) == call # None /\ call.fn = fn

\* every cell of the series is a number
IsPriceSeries(series) == \A t \in DOMAIN series : IsNum(series[t])

\* C15: rsi is 100 at every bar whose trailing-window average loss is 0
\* while its average gain is positive, and the 50.0 default is returned only
\* where the ratio is undefined because both averages are 0 (or absent).
C15_RsiIs100WithoutLosses ==
    (Called("rsi") /\ IsPriceSeries(call.series)) =>
        \A t \in DOMAIN call.series :
            LET bar == rsi_bars(call.series, call.win)[t] IN
            /\ (bar.loss = RInt(0) /\ FLt(RInt(0), bar.gain))
                    => call.out.value[t] = RInt(100)
            /\ (isnan(bar.out) /\ call.out.value[t] = RInt(50))
                    => (bar.gain \in {RInt(0), NaN} /\ bar.loss \in {RInt(0), NaN})

IsConstant(series) == \A t, u \in DOMAIN series : series[t] = series[u]

\* C16: for every finite series and every window rsi returns a series of
\* the input's length whose values all lie in [0, 100]; for a constant
\* series every value is exactly 50.
C16_RsiInRange ==
    Called("rsi") =>
        /\ ~call.out.raises
        /\ Len(call.out.value) = Len(call.series)
        /\ \A t \in DOMAIN call.out.value :
                FLe(RInt(0), call.out.value[t]) /\ FLe(call.out.value[t], RInt(100))
        /\ (IsPriceSeries(call.series) /\ IsConstant(call.series))
                => \A t \in DOMAIN call.out.value : call.out.value[t] = RInt(50)

\* gains and losses in one window: a value strictly between 50 and 100
C16_Witness ==
    /\ Called("rsi") /\ IsPriceSeries(call.series)
    /\ call.win = 2 /\ Len(call.series) = 3
    /\ FLt(RInt(50), call.out.value[3]) /\ FLt(call.out.value[3], RInt(100))

RECURSIVE SumLast(_, _, _)
SumLast(series, t, k) ==
    IF k = 0 THEN 0 ELSE series[t].num + SumLast(series, t - 1, k - 1)

Min(a, b) == IF a < b THEN a ELSE b

\* C17: for every price series and every window w, sma returns without
\* raising a series of the same length whose element t is the arithmetic
\* mean of the last min(w, t) points up to t (bars counted from 1).
C17_SmaIsTrailingMean ==
    (Called("sma") /\ IsPriceSeries(call.series)) =>
        /\ ~call.out.raises
        /\ Len(call.out.value) = Len(call.series)
        /\ \A t \in DOMAIN call.series :
                LET k == Min(call.win, t)
                IN  call.out.value[t] = Rat(SumLast(call.series, t, k), k)

\* a window longer than the history at the first bar, full at the last
C17_Witness ==
    /\ Called("sma") /\ IsPriceSeries(call.series)
    /\ call.win = 2 /\ Len(call.series) = 3
    /\ call.out.value[1] # call.out.value[2]
    /\ call.out.value[3] # call.out.value[2]
    /\ call.out.value[3] # RInt(call.series[3].num)

\* C18: for an empty input sma, rsi and vwap_cross return an empty series
\* and raise no exception.
C18_EmptyInEmptyOut ==
    /\ ((Called("sma") \/ Called("rsi")) /\ call.series = <<>>)
            => call.out = Returns(<<>>)
    /\ (Called("vwap_cross") /\ empty(call.df))
            => /\ ~call.out.raises
               /\ call.out.value.index = <<>>
               /\ call.out.value.equity = <<>>

C18_Witness ==
    /\ Called("vwap_cross") /\ call.df = Frame({}, <<>>)
    /\ call.out.value.equity = <<>>


---------------------------------------------------------------------------
(* The backtest engine: backtest_sma_cross and its nested _stats           *)
(* The equity curves are computed exactly. The four statistics involve a   *)
(* real power and square roots, so each is kept up to sign and finiteness: *)
(* one of "nan", "-inf", "neg", "zero", "pos", "inf".                      *)

\* bars per price series given to the engine; fee_bps values; the (short,
\* long) windows; cells of an equity curve handed to _stats directly
MaxEngineBars == 3
FeeBps == {0, 2500, 5000}
WindowPairs == {<<1, 2>>, <<2, 3>>, <<2, 1>>}
EqCells == {RInt(-1), RInt(0), Rat(1, 2), RInt(1), RInt(2), RInt(17)}

fillna(s, value) == [t \in 1..Len(s) |-> IF isnan(s[t]) THEN value ELSE s[t]]

\* the last observed value up to t (fill_method="pad"), NaN if there is none
RECURSIVE ffill_at(_, _)
ffill_at(s, t) ==
    IF t = 0 THEN NaN ELSE IF isnan(s[t]) THEN ffill_at(s, t - 1) ELSE s[t]

\* s.pct_change(): NaN at the first bar
pct_change_float(s) ==
    [t \in 1..Len(s) |->
        IF t = 1 THEN NaN
        ELSE FSub(FDiv(ffill_at(s, t), ffill_at(s, t - 1)), RInt(1))]

\* product of the observed values of s[lo..hi], in the order of the bars
RECURSIVE nanprod_range(_, _, _)
nanprod_range(s, lo, hi) ==
    IF lo > hi THEN RInt(1)
    ELSE IF lo = hi THEN (IF isnan(s[lo]) THEN RInt(1) ELSE s[lo])
    ELSE LET mid == (lo + hi) \div 2
         IN  FMul(nanprod_range(s, lo, mid), nanprod_range(s, mid + 1, hi))

\* product of the observed values of s[1..t]
nanprod(s, t) == nanprod_range(s, 1, t)

\* s.cumprod() (skipna): NaN where s is NaN
cumprod_float(s) == [t \in 1..Len(s) |-> IF isnan(s[t]) THEN NaN ELSE nanprod(s, t)]

FMax(x, y) == IF isnan(x) THEN y ELSE IF isnan(y) THEN x ELSE IF FLt(x, y) THEN y ELSE x
FMin(x, y) == IF isnan(x) THEN y ELSE IF isnan(y) THEN x ELSE IF FLt(y, x) THEN y ELSE x

\* largest and smallest observed value of s[lo..hi], NaN if there is none
RECURSIVE nanmax_range(_, _, _)
nanmax_range(s, lo, hi) ==
    IF lo > hi THEN NaN
    ELSE IF lo = hi THEN s[lo]
    ELSE LET mid == (lo + hi) \div 2
         IN  FMax(nanmax_range(s, lo, mid), nanmax_range(s, mid + 1, hi))

RECURSIVE nanmin_range(_, _, _)
nanmin_range(s, lo, hi) ==
    IF lo > hi THEN NaN
    ELSE IF lo = hi THEN s[lo]
    ELSE LET mid == (lo + hi) \div 2
         IN  FMin(nanmin_range(s, lo, mid), nanmin_range(s, mid + 1, hi))

nanmax(s, t) == nanmax_range(s, 1, t)
nanmin(s, t) == nanmin_range(s, 1, t)

\* s.cummax() (skipna): NaN where s is NaN
cummax(s) == [t \in 1..Len(s) |-> IF isnan(s[t]) THEN NaN ELSE nanmax(s, t)]

\* sign and finiteness of a float
ClassOf(x) ==
    IF isnan(x) THEN "nan"
    ELSE IF x = PosInf THEN "inf"
    ELSE IF x = NegInf THEN "-inf"
    ELSE IF x[1] > 0 THEN "pos" ELSE IF x[1] < 0 THEN "neg" ELSE "zero"

FiniteClasses == {"neg", "zero", "pos"}

\* The least integer base whose power 252 / n overflows float64: 17 ** 252,
\* 280 ** 126, 4675 ** 84 and 78151 ** 63 are the first to do so; longer
\* curves are not given values that large.
OverflowBase(n) ==
    IF n = 1 THEN 17 ELSE IF n = 2 THEN 280 ELSE IF n = 3 THEN 4675 ELSE 78151

\* class of (b ** (252.0 / max(n, 1))) - 1.0 for the last value b of n bars
CagrClass(b, n) ==
    LET m == Max(n, 1)
        integral == 252 % m = 0
        odd == integral /\ (252 \div m) % 2 = 1
        huge == Abs(b[1]) \div b[2] >= OverflowBase(m)
    IN  IF isnan(b) THEN "nan"
        ELSE IF b = PosInf THEN "inf"
        ELSE IF b = NegInf THEN (IF odd THEN "-inf" ELSE "inf")
        ELSE IF b[1] < 0 /\ ~integral THEN "nan"
        ELSE IF b[1] < 0 /\ odd THEN (IF huge THEN "-inf" ELSE "neg")
        ELSE IF huge THEN "inf"
        ELSE ClassOf(RInt(Abs(b[1]) - b[2]))

\* class of rets.std() * np.sqrt(252.0): the sample deviation (ddof = 1) is
\* NaN below two bars or with a non-finite return, 0 when all returns are
\* equal and positive otherwise
VolClass(rets) ==
    IF Len(rets) < 2 \/ \E t \in DOMAIN rets : ~isfinite(rets[t]) THEN "nan"
    ELSE IF \A t \in DOMAIN rets : rets[t] = rets[1] THEN "zero"
    ELSE "pos"

\* class of (rets.mean() * 252.0) / (vol if vol != 0 else np.nan)
\* (finite returns of one sign have a mean of that sign; the sum is only
\* computed where the signs are mixed or a return is not finite)
SharpeClass(rets, vol) ==
    LET finite == \A t \in DOMAIN rets : isfinite(rets[t])
        mean == FDiv(nansum(rets, DOMAIN rets), RInt(Len(rets)))
        num == IF finite /\ \A t \in DOMAIN rets : rets[t][1] = 0 THEN "zero"
               ELSE IF finite /\ \A t \in DOMAIN rets : rets[t][1] >= 0 THEN "pos"
               ELSE IF finite /\ \A t \in DOMAIN rets : rets[t][1] <= 0 THEN "neg"
               ELSE ClassOf(FMul(mean, RInt(252)))
    IN  IF vol \in {"zero", "nan"} \/ num = "nan" THEN "nan" ELSE num

\* float(x) if np.isfinite(x) else 0.0
finite_or_zero(cls) == IF cls \in FiniteClasses THEN cls ELSE "zero"

\* the four statistics, passed through the np.isfinite guards or not
StatsOf(eq, guarded) ==
    LET rets == values(fillna(pct_change_float(eq), RInt(0)))
        vol == VolClass(rets)
        peak == values(cummax(eq))
        drawdown == values([t \in 1..Len(eq) |-> FSub(FDiv(eq[t], peak[t]), RInt(1))])
        computed == [CAGR |-> CagrClass(eq[Len(eq)], Len(eq)),
                     Vol |-> vol,
                     MaxDD |-> ClassOf(nanmin(drawdown, Len(eq))),
                     Sharpe |-> SharpeClass(rets, vol)]
    IN  IF guarded
        THEN [field \in DOMAIN computed |-> finite_or_zero(computed[field])]
        ELSE computed

\* variant: _stats without the np.isfinite guards
_stats_unguarded(eq) ==
    IF Len(eq) = 0 THEN Raises("IndexError") ELSE Returns(StatsOf(eq, FALSE))

\* _stats(eq); eq.iloc[-1] raises IndexError on an empty curve
_stats(eq) ==
    IF Len(eq) = 0 THEN Raises("IndexError") ELSE Returns(StatsOf(eq, TRUE))


\* A price frame: its Close column, if it has one
PriceFrame(has_close, close) == [has_close |-> has_close, close |-> close]

\* variant: moving averages that are NaN until their window is full
sma_cross_signal_full(px, short, long) ==
    LET s_sma == rolling_mean_full(px, short)
        l_sma == rolling_mean_full(px, long)
    IN  [t \in 1..Len(px) |-> IF FLt(l_sma[t], s_sma[t]) THEN 1 ELSE 0]

\* (s_sma > l_sma).astype(int): a comparison with NaN is False
sma_cross_signal(px, short, long) ==
    LET s_sma == rolling_mean(px, short)
        l_sma == rolling_mean(px, long)
    IN  [t \in 1..Len(px) |-> IF FLt(l_sma[t], s_sma[t]) THEN 1 ELSE 0]

\* signal.shift(1).fillna(0)
shift_sig(sig) == [t \in 1..Len(sig) |-> IF t = 1 THEN 0 ELSE sig[t - 1]]

\* variant: a toggle wherever the position is long
toggles_while_long(sig) == sig

\* (signal != shift_sig).astype(int)
toggles(sig) == [t \in 1..Len(sig) |-> IF sig[t] # shift_sig(sig)[t] THEN 1 ELSE 0]

\* variant: no transaction cost at all
cost_free(sig, fee_bps) == [t \in 1..Len(sig) |-> RInt(0)]

\* toggles * (fee_bps / 10000.0)
cost(sig, fee_bps) ==
    [t \in 1..Len(sig) |-> FMul(RInt(toggles(sig)[t]), Rat(fee_bps, 10000))]

\* variant: the return of a bar earned with the signal of the bar before
strat_ret_shifted(ret, sig) ==
    [t \in 1..Len(ret) |-> FMul(ret[t], RInt(shift_sig(sig)[t]))]

\* ret * signal
strat_ret(ret, sig) == [t \in 1..Len(ret) |-> FMul(ret[t], RInt(sig[t]))]

\* (1 + rets).cumprod()
equity(rets) == cumprod_float([t \in 1..Len(rets) |-> FAdd(RInt(1), rets[t])])

\* lines 277-288: the series the engine computes on the way, for a frame
\* with a Close column and windows of 1 or more
backtest_locals(df, short, long, fee_bps) ==
    LET px == values(fillna(as_float_series(df.close), RInt(0)))
        n == Len(px)
        sig == values(sma_cross_signal(px, short, long))
        ret == values(fillna(pct_change_float(px), RInt(0)))
        gross == strat_ret(ret, sig)
        fee == values(cost(sig, fee_bps))
        net == values([t \in 1..n |-> FSub(gross[t], fee[t])])
    IN  [px |-> px, signal |-> sig, toggles |-> values(toggles(sig)), ret |-> ret,
         cost |-> fee, strat_ret |-> net,
         eq_bh |-> values(equity(ret)), eq_st |-> values(equity(net))]

backtest_sma_cross(df, short, long, fee_bps) ==
    IF ~df.has_close THEN Raises("KeyError")
    ELSE IF short < 1 \/ long < 1 THEN Raises("ValueError")
    ELSE
    LET locals == backtest_locals(df, short, long, fee_bps)
        stats_bh == _stats(locals.eq_bh)
        stats_st == _stats(locals.eq_st)
    IN  IF stats_bh.raises THEN stats_bh
        ELSE IF stats_st.raises THEN stats_st
        ELSE Returns([eq_bh |-> locals.eq_bh, eq_st |-> locals.eq_st,
                      signal |-> locals.signal,
                      stats_bh |-> stats_bh.value, stats_st |-> stats_st.value])

\* Evaluations of the engine: one function applied to one input
\* closes of the engine's frames: a zero, rising and falling prices, a
\* missing value
EngineCells == {Num(0), Num(1), Num(2), Num(3), None}

PriceFrames ==
    {PriceFrame(TRUE, close) : close \in SeqsUpTo(EngineCells, MaxEngineBars)}
        \cup {PriceFrame(FALSE, <<>>)}

EquityCurves == SeqsUpTo(EqCells, MaxBars)

apply_backtest_sma_cross(df, short, long, fee_bps) ==
    /\ call = None
    /\ call' = [fn |-> "backtest_sma_cross", df |-> df, short |-> short,
                long |-> long, fee_bps |-> fee_bps,
                out |-> backtest_sma_cross(df, short, long, fee_bps)]
    /\ UNCHANGED <<jobVars, healthVars, journalVars, restVars>>

\* the same frame and windows run with two fees, fee_low < fee_high
apply_backtest_fees(df, short, long, fee_low, fee_high) ==
    /\ call = None
    /\ fee_low < fee_high
    /\ call' = [fn |-> "backtest_fees", df |-> df, short |-> short, long |-> long,
                fee_low |-> fee_low, fee_high |-> fee_high,
                low |-> backtest_sma_cross(df, short, long, fee_low),
                high |-> backtest_sma_cross(df, short, long, fee_high)]
    /\ UNCHANGED <<jobVars, healthVars, journalVars, restVars>>

\* 252 closes rising linearly from 100 to 200, in units of 100/251 (bar t
\* closes at 250 + t units); moving averages scale with the unit, the
\* signal, the returns and both equity curves do not depend on it
LinearRise == PriceFrame(TRUE, [t \in 1..252 |-> Num(250 + t)])

\* the engine with its default windows and no fee on the rising series
apply_linear_rise ==
    /\ call = None
    /\ call' = [fn |-> "linear_rise", df |-> LinearRise, short |-> 10, long |-> 20,
                fee_bps |-> 0, out |-> backtest_sma_cross(LinearRise, 10, 20, 0)]
    /\ UNCHANGED <<jobVars, healthVars, journalVars, restVars>>

apply_stats(eq) ==
    /\ call = None
    /\ call' = [fn |-> "_stats", eq |-> eq, out |-> _stats(eq)]
    /\ UNCHANGED <<jobVars, healthVars, journalVars, restVars>>

\* the frames a worker hands to vwap_cross: what load_prices returns
LoadedFrames ==
    {load_prices(fetched).value : fetched \in {f \in get_ohlc : ~load_prices(f).raises}}

EngineNext ==
    \/ \E df \in PriceFrames, win \in WindowPairs, fee_bps \in FeeBps :
            apply_backtest_sma_cross(df, win[1], win[2], fee_bps)
    \/ \E df \in PriceFrames, win \in WindowPairs, fee_low, fee_high \in FeeBps :
            apply_backtest_fees(df, win[1], win[2], fee_low, fee_high)
    \/ apply_linear_rise
    \/ \E df \in LoadedFrames : apply_vwap_cross(df)
    \/ \E eq \in EquityCurves : apply_stats(eq)

EngineSpec == Init /\ [][EngineNext]_vars

AllZero(stats) ==
    /\ stats.CAGR = "zero" /\ stats.Vol = "zero"
    /\ stats.MaxDD = "zero" /\ stats.Sharpe = "zero"

\* every close is NaN (or there is no bar at all)
AllNaN(close) == \A t \in DOMAIN close : ~IsNum(close[t])

\* C19: the engine run on an empty price series, or on closes that are all
\* NaN, does not raise and returns statistics that are all 0.0 for the
\* buy-and-hold and for the strategy curve.
C19_DegenerateInputNeutralStats ==
    (Called("backtest_sma_cross") /\ AllNaN(call.df.close)) =>
        /\ ~call.out.raises
        /\ AllZero(call.out.value.stats_bh)
        /\ AllZero(call.out.value.stats_st)

\* C20: _stats returns no NaN and no infinity in any field, MaxDD is never
\* positive, and a curve that is constant 1.0 yields 0 in all four fields.
C20_StatsFinite ==
    (Called("_stats") /\ ~call.out.raises) =>
        /\ \A field \in {"CAGR", "Vol", "MaxDD", "Sharpe"} :
                call.out.value[field] \in FiniteClasses
        /\ call.out.value.MaxDD \in {"neg", "zero"}
        /\ (\A t \in DOMAIN call.eq : call.eq[t] = RInt(1)) => AllZero(call.out.value)

\* a non-finite Sharpe (zero volatility) and a non-finite CAGR (negative
\* base) were both reported as 0.0
C20_Witness ==
    /\ Called("_stats") /\ ~call.out.raises
    /\ Len(call.eq) = 2
    /\ call.eq[1] = call.eq[2] /\ call.eq[2] = RInt(-1)
    /\ StatsOf(call.eq, FALSE).Sharpe = "nan"
    /\ call.out.value.Sharpe = "zero"


---------------------------------------------------------------------------
(* Fees, toggles and the equity curves of backtest_sma_cross               *)

\* the signal differs from the bar before at some bar (0 before the first)
HasToggle(sig) == \E t \in DOMAIN sig : toggles(sig)[t] = 1

Final(curve) == curve[Len(curve)]

ComparedFees == Called("backtest_fees") /\ ~call.low.raises /\ ~call.high.raises

\* every value of the curve is a positive finite number
PositiveCurve(curve) ==
    \A t \in DOMAIN curve : isfinite(curve[t]) /\ FLt(RInt(0), curve[t])

\* C21: for every price series and window pair, a signal without a switch
\* gives the same strategy equity curve under every fee as under fee 0, and
\* with at least one toggle the final strategy equity under the higher of
\* two fees is strictly lower than under the lower one.
C21_ToggleCost ==
    ComparedFees =>
        LET sig == call.low.value.signal IN
        /\ ~HasToggle(sig) => call.high.value.eq_st = call.low.value.eq_st
        /\ HasToggle(sig) =>
                FLt(Final(call.high.value.eq_st), Final(call.low.value.eq_st))

\* C21 (amended): the same, the strict decrease being claimed only where
\* every value of the strategy equity curve under the higher fee is
\* positive and finite.
C21_ToggleCostWhilePositive ==
    ComparedFees =>
        LET sig == call.low.value.signal IN
        /\ call.high.value.signal = sig
        /\ ~HasToggle(sig) => call.high.value.eq_st = call.low.value.eq_st
        /\ (HasToggle(sig) /\ PositiveCurve(call.high.value.eq_st)) =>
                FLt(Final(call.high.value.eq_st), Final(call.low.value.eq_st))

\* two positive fees, a toggle, and a strictly lower final equity
C21_Witness ==
    /\ ComparedFees /\ call.fee_low > 0
    /\ HasToggle(call.low.value.signal)
    /\ PositiveCurve(call.high.value.eq_st)
    /\ FLt(Final(call.high.value.eq_st), Final(call.low.value.eq_st))


\* the signal is 0 before bar k and 1 from bar k on
FlipsAt(sig, k) == \A t \in DOMAIN sig : sig[t] = (IF t < k THEN 0 ELSE 1)

\* C22: on the 252-bar linear rise from 100 to 200 with windows 10 and 20
\* and no fee, the signal flips to 1 shortly after bar 20 (not earlier) and
\* stays 1, and the final strategy equity is at least the final
\* buy-and-hold equity.
C22_LinearRiseScenario ==
    Called("linear_rise") =>
        /\ ~call.out.raises
        /\ \E k \in 20..40 : FlipsAt(call.out.value.signal, k)
        /\ FLe(Final(call.out.value.eq_bh), Final(call.out.value.eq_st))

\* C22 (amended): on that series the signal is 0 on bars 1..10 and 1 from
\* bar 11 on, the buy-and-hold equity ends at 2 and the strategy equity at
\* close(252) / close(10), which is lower.
C22_LinearRiseFlipsAtBar11 ==
    Called("linear_rise") =>
        /\ ~call.out.raises
        /\ Len(call.out.value.signal) = 252
        /\ FlipsAt(call.out.value.signal, 11)
        /\ Final(call.out.value.eq_bh) = RInt(2)
        /\ Final(call.out.value.eq_st) = Rat(250 + 252, 250 + 10)
        /\ FLt(Final(call.out.value.eq_st), Final(call.out.value.eq_bh))

C22_Witness ==
    /\ Called("linear_rise")
    /\ call.out.value.signal[20] = 1 /\ call.out.value.signal[252] = 1
    /\ call.out.value.eq_st[10] = RInt(1)
    /\ FLt(RInt(1), call.out.value.eq_st[11])


\* C23: for non-negative closes and any fee of 0 bps or more, both equity
\* curves of the engine have the input's length, start at 1.0 and hold no
\* negative value.
C23_EquityCurvesNonNegative ==
    (Called("backtest_sma_cross") /\ ~call.out.raises /\ IsPriceSeries(call.df.close)) =>
        \A curve \in {call.out.value.eq_bh, call.out.value.eq_st} :
            /\ Len(curve) = Len(call.df.close)
            /\ curve[1] = RInt(1)
            /\ \A t \in DOMAIN curve : ~FLt(curve[t], RInt(0))


---------------------------------------------------------------------------
(* Ownership of price frames. A DataFrame is an object on the heap; a      *)
(* reference is its position. Each function is given the heap and the      *)
(* references of its arguments and returns the heap it leaves behind:      *)
(* .copy() allocates a new object, inplace=True writes to the object it is *)
(* called on, every other pandas call of the code builds a new object.     *)
(* The memoized cache (flask_caching FileSystemCache, st.cache_data)       *)
(* stores a pickled value and hands out a fresh object on every hit.       *)

MaxObjects == 4

IsFrame(obj) == "cols" \in DOMAIN obj

\* df.copy()
copy(h, df) == Append(h, h[df])

\* frame.sort_values("date", inplace=True)
sort_values_inplace(h, frame) ==
    [h EXCEPT ![frame] = Frame(@.cols, sort_values(@.rows))]

\* prices.py:16-20 for the object the source returned
load_prices_body(h, df) ==
    LET copied == copy(h, df)
        frame == Len(copied)
    IN  IF empty(copied[frame])
        THEN [raises |-> FALSE, heap |-> copied, ref |-> frame]
        ELSE IF "date" \notin copied[frame].cols
        THEN [raises |-> TRUE, heap |-> copied, error |-> "'date'"]
        ELSE [raises |-> FALSE, heap |-> sort_values_inplace(copied, frame), ref |-> frame]

\* @cache.memoize(): a hit unpickles the stored value into a new object; a
\* miss runs the body on what the source returns and pickles the result;
\* an exception is passed on and nothing is stored
load_prices_memoized(h, m, symbol, fetched) ==
    IF symbol \in DOMAIN m
    THEN [raises |-> FALSE, heap |-> Append(h, m[symbol]), memo |-> m, ref |-> Len(h) + 1]
    ELSE IF fetched.raises
    THEN [raises |-> TRUE, heap |-> h, memo |-> m, error |-> fetched.error]
    ELSE LET body == load_prices_body(Append(h, fetched.value), Len(h) + 1)
         IN  IF body.raises
             THEN [raises |-> TRUE, heap |-> body.heap, memo |-> m, error |-> body.error]
             ELSE [raises |-> FALSE, heap |-> body.heap,
                   memo |-> Set(m, symbol, body.heap[body.ref]), ref |-> body.ref]

\* variant: vwap_cross keeping its columns on the frame it was given
vwap_cross_annotating(h, df) ==
    [heap |-> [h EXCEPT ![df] = Frame(@.cols \cup {"vwap", "signal"}, @.rows)],
     out |-> vwap_cross(h[df])]

\* core/backtest.py:10-25: an empty frame returns at once, otherwise the
\* function works on prices = df.copy()
vwap_cross_on(h, df) ==
    IF empty(h[df]) THEN [heap |-> h, out |-> vwap_cross(h[df])]
    ELSE LET copied == copy(h, df)
         IN  [heap |-> copied, out |-> vwap_cross(copied[Len(copied)])]

\* prices.py:23: the prices page loads the frame of the selected symbol
render(symbol) ==
    /\ Len(heap) + 2 <= MaxObjects
    /\ \E fetched \in get_ohlc :
        LET loaded == load_prices_memoized(heap, memo, symbol, fetched)
        IN  /\ heap' = loaded.heap
            /\ memo' = loaded.memo
            /\ call' = [fn |-> "load_prices", symbol |-> symbol,
                        hit |-> symbol \in DOMAIN memo,
                        out |-> IF loaded.raises THEN Raises(loaded.error)
                                ELSE Returns(loaded.ref)]
    /\ UNCHANGED <<jobVars, healthVars, journalVars, limiterVars, pageVars, daemonVars>>

\* backtest.py:25-26: the worker loads the prices and runs the strategy
run_job_frames(symbol) ==
    /\ Len(heap) + 3 <= MaxObjects
    /\ \E fetched \in get_ohlc :
        LET loaded == load_prices_memoized(heap, memo, symbol, fetched)
            result == vwap_cross_on(loaded.heap, loaded.ref)
        IN  /\ heap' = IF loaded.raises THEN loaded.heap ELSE result.heap
            /\ memo' = loaded.memo
            /\ call' = [fn |-> "_run_job", symbol |-> symbol,
                        hit |-> symbol \in DOMAIN memo,
                        out |-> IF loaded.raises THEN Raises(loaded.error)
                                ELSE result.out]
    /\ UNCHANGED <<jobVars, healthVars, journalVars, limiterVars, pageVars, daemonVars>>

\* vwap_cross called on a frame its caller holds
call_vwap_cross(df) ==
    /\ IsFrame(heap[df])
    /\ Len(heap) + 1 <= MaxObjects
    /\ LET result == vwap_cross_on(heap, df)
       IN  /\ heap' = result.heap
           /\ call' = [fn |-> "vwap_cross", df |-> df, before |-> heap[df],
                       out |-> result.out]
    /\ UNCHANGED <<memo, jobVars, healthVars, journalVars, limiterVars, pageVars, daemonVars>>

\* rizzk_pro.py:113-144: st.cache_data hands the caller its own copy of the
\* fetched history
HistoryCloses == {<<Num(2), Num(1), Num(3)>>, <<Num(1), None>>}

fetch_stooq_history ==
    /\ Len(heap) + 1 <= MaxObjects
    /\ \E close \in HistoryCloses :
        /\ heap' = Append(heap, PriceFrame(TRUE, close))
        /\ call' = [fn |-> "fetch_stooq_history", out |-> Returns(Len(heap) + 1)]
    /\ UNCHANGED <<memo, jobVars, healthVars, journalVars, limiterVars, pageVars, daemonVars>>

\* rizzk_pro.py:253-254, 321: sma, rsi and the engine on a fetched history;
\* every statement of lines 148-163 and 277-303 builds a new Series
call_library(df, fn, short, long, fee_bps) ==
    /\ ~IsFrame(heap[df])
    /\ call' = [fn |-> fn, df |-> df, before |-> heap[df],
                out |-> IF fn = "sma" THEN sma(heap[df].close, short)
                        ELSE IF fn = "rsi" THEN rsi(heap[df].close, short)
                        ELSE backtest_sma_cross(heap[df], short, long, fee_bps)]
    /\ UNCHANGED <<heap, memo, jobVars, healthVars, journalVars, limiterVars, pageVars, daemonVars>>

HeapNext ==
    \/ \E symbol \in Symbols : render(symbol)
    \/ \E symbol \in Symbols : run_job_frames(symbol)
    \/ \E df \in DOMAIN heap : call_vwap_cross(df)
    \/ fetch_stooq_history
    \/ \E df \in DOMAIN heap, fn \in {"sma", "rsi", "backtest_sma_cross"} :
            call_library(df, fn, 2, 3, 2500)

HeapSpec == Init /\ [][HeapNext]_vars

\* C24: no call of the indicator functions, the engine or a worker changes
\* a frame that existed before the call (values, order and columns), nor
\* an entry of the memoized price cache.
C24_InputsNeverMutated ==
    [][/\ \A ref \in DOMAIN heap : ref \in DOMAIN heap' /\ heap'[ref] = heap[ref]
       /\ \A symbol \in DOMAIN memo :
            symbol \in DOMAIN memo' /\ memo'[symbol] = memo[symbol]]_vars

\* vwap_cross has run on an unsorted frame its caller holds, working on a
\* copy, while a sorted frame of the same prices is memoized
C24_Witness ==
    /\ Called("vwap_cross") /\ ~call.out.raises
    /\ heap[call.df] = call.before
    /\ heap[call.df].rows # sort_values(heap[call.df].rows)
    /\ Len(heap) > call.df /\ heap[Len(heap)] = call.before
    /\ \E symbol \in DOMAIN memo : memo[symbol].rows = sort_values(call.before.rows)


---------------------------------------------------------------------------
(* Which bar's signal earns a bar's return                                 *)

\* the curve compounded from the closes with the given positions, less the
\* toggle costs of the engine's own signal
CompoundedWith(close, position, sig, fee_bps) ==
    LET px == values(fillna(as_float_series(close), RInt(0)))
        ret == values(fillna(pct_change_float(px), RInt(0)))
        fee == values(cost(sig, fee_bps))
    IN  equity(values([t \in 1..Len(px) |->
                    FSub(FMul(ret[t], RInt(position[t])), fee[t])]))

\* the curve vwap_cross compounds from the frame with the given positions
VwapCompoundedWith(df, position) ==
    LET returns == pct_change(Close(df))
        growth == [t \in 1..Len(df.rows) |->
                      RAdd(RInt(1), RMul(returns[t], RInt(position[t])))]
    IN  [t \in 1..Len(df.rows) |-> cumprod(growth, t)]

SmaEngineRan == Called("backtest_sma_cross") /\ ~call.out.raises
VwapEngineRan == Called("vwap_cross") /\ ~call.out.raises /\ ~empty(call.df)

\* C25: in the engine and in the engine the worker invokes, the strategy
\* return of a bar is that bar's price change times the same bar's signal,
\* without a one-bar shift.
C25_SameBarSignal ==
    /\ SmaEngineRan =>
            call.out.value.eq_st =
                CompoundedWith(call.df.close, call.out.value.signal,
                               call.out.value.signal, call.fee_bps)
    /\ VwapEngineRan =>
            call.out.value.equity = VwapCompoundedWith(call.df, signal(call.df))

\* C25 (amended): backtest_sma_cross applies the same bar's signal; the
\* engine the worker invokes, vwap_cross, applies the signal of the bar
\* before (0 at the first bar).
C25_SameBarSignalInSmaEngineOnly ==
    /\ SmaEngineRan =>
            call.out.value.eq_st =
                CompoundedWith(call.df.close, call.out.value.signal,
                               call.out.value.signal, call.fee_bps)
    /\ VwapEngineRan =>
            call.out.value.equity = VwapCompoundedWith(call.df, shift(signal(call.df)))

\* the engine books the return of the very bar at which its signal turned
\* long
C25_Witness ==
    /\ SmaEngineRan /\ call.fee_bps = 0
    /\ call.out.value.signal = <<0, 1>>
    /\ FLt(RInt(1), call.out.value.eq_st[2])

\* closes 2, 1: the signal leaves the market at the second bar, whose loss
\* the worker's engine still books
ShiftedVwapRun ==
    /\ VwapEngineRan
    /\ signal(call.df) = <<1, 0>>
    /\ call.out.value.equity = <<RInt(1), Rat(1, 2)>>


\* the series the engine computed on the way to the result of the call
Locals == backtest_locals(call.df, call.short, call.long, call.fee_bps)

RECURSIVE Count(_, _)
Count(s, t) == IF t = 0 THEN 0 ELSE s[t] + Count(s, t - 1)

\* C26: bar t is a toggle exactly when its signal differs from the signal
\* of bar t-1 (0 before the first bar); the cost deducted from the strategy
\* return of bar t is fee_bps / 10000 on a toggle bar and 0 otherwise, so
\* the costs sum to (number of toggles) * fee_bps / 10000.
C26_TogglesAndCost ==
    SmaEngineRan =>
        LET sig == call.out.value.signal
            locals == Locals
            fee == Rat(call.fee_bps, 10000)
        IN  /\ locals.signal = sig
            /\ \A t \in DOMAIN sig :
                LET before == IF t = 1 THEN 0 ELSE sig[t - 1]
                    toggle == sig[t] # before
                IN  /\ locals.toggles[t] = (IF toggle THEN 1 ELSE 0)
                    /\ locals.cost[t] = (IF toggle THEN fee ELSE RInt(0))
                    /\ locals.strat_ret[t] =
                        FSub(FMul(locals.ret[t], RInt(sig[t])),
                             IF toggle THEN fee ELSE RInt(0))
            /\ nansum(locals.cost, DOMAIN sig)
                    = Rat(Count(locals.toggles, Len(sig)) * call.fee_bps, 10000)
            /\ call.out.value.eq_st = equity(locals.strat_ret)

\* in and out again: two toggles, each charged the fee
C26_Witness ==
    /\ SmaEngineRan /\ call.fee_bps = 2500
    /\ call.out.value.signal = <<0, 1, 0>>
    /\ Locals.toggles = <<0, 1, 1>>
    /\ nansum(Locals.cost, 1..3) = Rat(1, 2)


---------------------------------------------------------------------------
(* The rate limiter on its own                                             *)

AllowCalls == {i \in DOMAIN verdicts : verdicts[i].op = "allow"}

RECURSIVE Oldest(_)
Oldest(hits) ==
    IF Len(hits) = 1 THEN hits[1]
    ELSE LET rest == Oldest(Tail(hits)) IN IF hits[1] < rest THEN hits[1] ELSE rest

\* C28: allow(key) records a hit only when it returns True (a rejected call
\* leaves the key's hits as they were), the stored hits of a key never
\* exceed limit, and a call made once window_seconds have passed since the
\* oldest stored hit of its key returns True, whatever was rejected in
\* between.
C28_HitsOnlyWhenAllowed ==
    /\ \A key \in DOMAIN _hits : Len(_hits[key]) <= limit
    /\ \A i \in AllowCalls :
        LET v == verdicts[i] IN
        /\ Len(v.after) <= limit
        /\ ~v.allowed => v.after = v.before
        /\ v.allowed => /\ v.after # <<>>
                        /\ v.after[Len(v.after)] = v.at
                        /\ Len(v.after) <= Len(v.before) + 1
        /\ (v.before # <<>> /\ v.at - Oldest(v.before) > window_seconds) => v.allowed

\* the latest allow of `key` among the first n entries with no reset after it
LastOwn(key, n) ==
    {j \in AllowCalls :
        /\ j <= n
        /\ verdicts[j].key = key
        /\ ~\E r \in (j + 1)..n : verdicts[r].op = "reset" \/ verdicts[r].key = key}

\* the allow calls of the key of call i since the last reset before call i
SinceReset(i) ==
    {j \in AllowCalls :
        /\ j < i
        /\ verdicts[j].key = verdicts[i].key
        /\ ~\E r \in (j + 1)..(i - 1) : verdicts[r].op = "reset"}

\* C29: the keys are independent: allow(k1) never changes the hits of another
\* key k2, so every call finds the deque that the latest call of its own key
\* left (an empty one after a reset or for a new key) and its verdict depends
\* on the calls of its own key and the resets only; reset() empties the hits
\* of every key, and each key then has its full quota of limit calls again.
C29_KeysIndependent ==
    /\ \A i \in AllowCalls :
        LET v == verdicts[i] IN
        /\ \A j \in LastOwn(v.key, i - 1) : v.before = verdicts[j].after
        /\ LastOwn(v.key, i - 1) = {} => v.before = <<>>
        /\ Cardinality(SinceReset(i)) < limit => v.allowed
    /\ \A key \in Keys :
        /\ \A j \in LastOwn(key, Len(verdicts)) : HitsOf(key) = verdicts[j].after
        /\ LastOwn(key, Len(verdicts)) = {} => HitsOf(key) = <<>>

\* both keys have hits, a reset follows, and the first key is let through
\* again on an empty deque at the time of its first hit
C29_Witness ==
    /\ Len(verdicts) = 4
    /\ verdicts[1].op = "allow" /\ verdicts[2].op = "allow"
    /\ verdicts[1].key # verdicts[2].key
    /\ verdicts[3].op = "reset"
    /\ verdicts[4].op = "allow" /\ verdicts[4].key = verdicts[1].key
    /\ verdicts[4].at = verdicts[1].at
    /\ verdicts[4].before = <<>> /\ verdicts[4].allowed
    /\ HitsOf(verdicts[2].key) = <<>>


---------------------------------------------------------------------------
(* The backtest page in the browser: the dcc.Store and the dcc.Interval   *)
(* that render() lays out, driven by the outputs of the two callbacks     *)

\* interval requests of one page in flight at one time
MaxPolls == 1

nonPageVars == <<healthVars, journalVars, call, frameVars, limiterVars, daemonVars>>

\* a click on "Run Backtest": _start_job runs and its outputs are applied,
\* "backtest-job".data (kept on no_update) and "backtest-poll".disabled
click(symbol) ==
    /\ _start_job(symbol)
    /\ store' = IF callback'.job_id = NoJob THEN store ELSE callback'.job_id
    /\ disabled' = callback'.out[3]
    /\ UNCHANGED <<polls, nonPageVars>>

\* the interval elapses while it is enabled: the request for _poll_status
\* leaves with the State of "backtest-job" at that moment
interval_fire ==
    /\ ~disabled
    /\ BagCardinality(polls) < MaxPolls
    /\ polls' = polls (+) SetToBag({store})
    /\ UNCHANGED <<store, disabled, jobVars, nonPageVars>>

\* the request is served by _poll_status and its output is applied to
\* "backtest-poll".disabled
poll_answer(job_id) ==
    /\ BagIn(job_id, polls)
    /\ polls' = polls (-) SetToBag({job_id})
    /\ _poll_status(job_id)
    /\ disabled' = callback'.out[3]
    /\ UNCHANGED <<store, nonPageVars>>

PageNext ==
    \/ \E symbol \in Symbols : click(symbol)
    \/ interval_fire
    \/ \E job_id \in BagToSet(polls) : poll_answer(job_id)
    \/ \E job_id \in JobIds : _run_job(job_id) /\ UNCHANGED otherVars

PageSpec == Init /\ [][PageNext]_vars

StoredJobRunning ==
    store # NoJob /\ StatusOf(Get(task_cache, store)) = "running"

\* C27: the polling protocol: a successful submit enables polling; a poll
\* that observes status running keeps it enabled; a poll that observes
\* done, error, an unknown id or an unrecognised status disables it; and
\* polling is enabled whenever the job the page holds is still running,
\* also after a second click while an earlier job runs or is polled.
C27_PollingWhileRunning ==
    /\ (last = "_start_job" /\ callback.job_id # NoJob) =>
            store = callback.job_id /\ ~disabled
    /\ last = "_poll_status" =>
            disabled = (callback.job_id = NoJob \/ StatusOf(callback.info) # "running")
    /\ StoredJobRunning => ~disabled


---------------------------------------------------------------------------
(* The sync daemon: the observer thread delivers events to the handler    *)
(* while main() sleeps, checks and snapshots                              *)

\* file-system events delivered in one run, seconds a snapshot may take
MaxEvents == 2
MaxBusy == 1

\* time.sleep(2), the quiet period of line 91, the heartbeat of line 99
SLEEP == 2
DEBOUNCE == 5
HEARTBEAT == 900

\* handler._last_event is None
NoEvent == -1

nonDaemonVars == <<jobVars, healthVars, journalVars, call, frameVars, limiterVars, pageVars>>

\* the two differences main() compares, `seconds` later
Aged(since, seconds, cap) ==
    IF since = NoEvent THEN NoEvent ELSE Min(since + seconds, cap)

\* the snapshot of lines 92-96 is past the start of safe_commit and before
\* handler.consume()
InSnapshot == kind = "change" /\ pc \in {"git_add", "git_commit", "consume"}

\* on_any_event, on the observer's thread
on_any_event(is_directory) ==
    /\ Len(events) < MaxEvents
    /\ events' = Append(events, [is_directory |-> is_directory,
                                 seen |-> snapshots, during |-> InSnapshot])
    /\ IF is_directory
       THEN UNCHANGED <<_dirty, since_event>>
       ELSE _dirty' = TRUE /\ since_event' = 0
    /\ UNCHANGED <<pc, kind, since_snapshot, busy, snapshots, nonDaemonVars>>

\* lines 88-91 and 99: sleep, read the clock, choose what to do
sleep ==
    /\ pc = "sleep"
    /\ busy' = 0
    /\ since_event' = Aged(since_event, SLEEP, DEBOUNCE)
    /\ since_snapshot' = Aged(since_snapshot, SLEEP, HEARTBEAT)
    /\ IF _dirty /\ since_event' # NoEvent /\ since_event' >= DEBOUNCE
       THEN pc' = "export_housekeeping" /\ kind' = "change"
       ELSE IF since_snapshot' >= HEARTBEAT
       THEN pc' = "export_housekeeping" /\ kind' = "heartbeat"
       ELSE pc' = "sleep" /\ kind' = "none"
    /\ UNCHANGED <<_dirty, events, snapshots, nonDaemonVars>>

\* lines 92-94 and 100-102: export_housekeeping returns, safe_commit starts
export_housekeeping ==
    /\ pc = "export_housekeeping"
    /\ pc' = "git_add"
    /\ snapshots' = IF kind = "change" THEN snapshots + 1 ELSE snapshots
    /\ UNCHANGED <<kind, _dirty, since_event, since_snapshot, busy, events, nonDaemonVars>>

\* line 53: git add -A
git_add ==
    /\ pc = "git_add"
    /\ pc' = "git_commit"
    /\ UNCHANGED <<kind, _dirty, since_event, since_snapshot, busy, events, snapshots, nonDaemonVars>>

\* lines 54-61: diff, commit and push; safe_commit returns
git_commit ==
    /\ pc = "git_commit"
    /\ pc' = "consume"
    /\ UNCHANGED <<kind, _dirty, since_event, since_snapshot, busy, events, snapshots, nonDaemonVars>>

\* lines 95-97 (handler.consume(); last_snapshot = now) and line 103
consume ==
    /\ pc = "consume"
    /\ _dirty' = IF kind = "change" THEN FALSE ELSE _dirty
    /\ since_snapshot' = busy
    /\ pc' = "sleep" /\ kind' = "none" /\ busy' = 0
    /\ UNCHANGED <<since_event, events, snapshots, nonDaemonVars>>

\* a second passes while main() is making a snapshot
elapse ==
    /\ pc # "sleep"
    /\ busy < MaxBusy
    /\ busy' = busy + 1
    /\ since_event' = Aged(since_event, 1, DEBOUNCE)
    /\ UNCHANGED <<pc, kind, _dirty, since_snapshot, events, snapshots, nonDaemonVars>>

main == sleep \/ export_housekeeping \/ git_add \/ git_commit \/ consume

DaemonNext ==
    \/ \E is_directory \in BOOLEAN : on_any_event(is_directory)
    \/ sleep
    \/ export_housekeeping
    \/ git_add
    \/ git_commit
    \/ consume
    \/ elapse

\* main() keeps running: `while True`
DaemonSpec == Init /\ [][DaemonNext]_vars /\ WF_vars(main)

FileEvents == {i \in DOMAIN events : ~events[i].is_directory}

\* C30: no file event is lost: an event that arrives while a snapshot is in
\* progress (after safe_commit has started, before handler.consume()) leaves
\* the handler dirty once the snapshot is over, and every file event is
\* followed by a change-triggered snapshot whose safe_commit starts after
\* the event.
C30_NoEventLost ==
    /\ [](\A i \in FileEvents :
            (pc = "sleep" /\ events[i].during /\ events[i].seen = snapshots) => _dirty)
    /\ \A i \in 1..MaxEvents :
            [](i \in FileEvents => <>(i \in FileEvents /\ snapshots > events[i].seen))

===========================================================================
